---- MODULE Spec2Model ----
(***************************************************************************)
(* ghstats: the metrics store (src/src/db_client.rs), the ingestion        *)
(* pipeline and the repository filter (src/src/helpers.rs).                *)
(*                                                                         *)
(* One module, several specifications over the same variables:             *)
(*   SpecStore  - the repo_stats upserts called in any order               *)
(*   SpecRace   - two overlapping update_metrics runs, statement by         *)
(*                statement                                                *)
(*   SpecDeltas - the referrer / path upserts and update_deltas             *)
(*   SpecPipe   - one invocation of update_metrics, call by call            *)
(*   SpecFilter - GhsFilter::new on a rule string, then is_included         *)
(*   SpecPage   - with_pagination against a remote of several pages         *)
(*   SpecRead   - get_stars and get_repo_totals on a stored repo_stats      *)
(*   SpecHist   - get_stars_history on a fetched stargazer list             *)
(*   SpecBackfill - repeated invocations without failures: the re-sighting  *)
(*                of the repositories, then sync_stars                      *)
(***************************************************************************)
EXTENDS Integers, Sequences, FiniteSets, TLC

VARIABLES
    repos,        \* table repos: id -> row
    repo_stats,   \* table repo_stats: <<repo_id, date>> -> row
    supplied,     \* history: <<repo_id, date>> -> column -> values bound so far
    lastCall,     \* history: the last store call and what it met
    ncalls,       \* history: number of store calls made
    run,          \* SpecRace: invocation -> its fetched data and position
    repo_referrers,      \* table repo_referrers: <<repo_id, date, referrer>> -> row
    repo_popular_paths,  \* table repo_popular_paths: <<repo_id, date, path>> -> row
    fresh,        \* history: update_deltas has returned and nothing was inserted since
    hidden,       \* the repository ids marked hidden
    pipe,         \* SpecPipe: position, locals and log of one update_metrics
    flt,          \* SpecFilter: the rule string, the filter built, the question asked
    pg,           \* SpecPage: the remote pages and the locals of with_pagination
    rd,           \* SpecRead: the last read call and its result
    shist         \* SpecHist: the stargazers fetched and what get_stars_history returned

vars == <<repos, repo_stats, supplied, lastCall, ncalls, run,
          repo_referrers, repo_popular_paths, fresh, hidden, pipe, flt, pg, rd, shist>>
pipeVars == <<hidden, pipe, flt, pg, rd, shist>>
storeHist == <<supplied, lastCall, ncalls>>
popVars == <<repo_referrers, repo_popular_paths, fresh>>

----------------------------------------------------------------------------
(* Bounds *)

MaxVal == 2      \* counters range over 0..MaxVal
MaxCalls == 2    \* store calls per behaviour of SpecStore

RepoIds == {1, 2}    \* two repositories
Dates == {1, 2}      \* two day buckets, as day numbers
Vals == 0..MaxVal
Keys == RepoIds \X Dates

----------------------------------------------------------------------------
(* Schema of repo_stats *)

StatCols == {"stars", "forks", "watchers", "issues"}
CloneCols == {"clones_count", "clones_uniques"}
ViewCols == {"views_count", "views_uniques"}
Cols == StatCols \cup CloneCols \cup ViewCols

\* every counter column is INTEGER NOT NULL DEFAULT 0
ColDefault == 0

\* SET c = excluded.c: the incoming value overwrites the stored one
SqlMaxOverwrites(a, b) == b

\* SET c = t.c + excluded.c: the incoming value is added to the stored one
SqlMaxAccumulates(a, b) == a + b

\* the two-argument scalar MAX of SQLite
SqlMax(a, b) == IF a >= b THEN a ELSE b

\* Rust's `x as i32` of a u32
AsI32(v) == IF v <= 2147483647 THEN v ELSE ((v - 2147483647) - 2147483647) - 2

\* INSERT INTO repo_stats (key, cols of vals) VALUES (...)
\* ON CONFLICT(repo_id, date) DO UPDATE SET c = MAX(t.c, excluded.c) for c of vals
UpsertStat(tbl, key, vals) ==
    IF key \in DOMAIN tbl
    THEN [tbl EXCEPT ![key] =
            [c \in Cols |-> IF c \in DOMAIN vals THEN SqlMax(tbl[key][c], vals[c])
                            ELSE tbl[key][c]]]
    ELSE (key :> [c \in Cols |-> IF c \in DOMAIN vals THEN vals[c] ELSE ColDefault])
         @@ tbl

----------------------------------------------------------------------------
(* Remote data: what the GitHub API hands to the store *)

NameOf(id) == <<"owner", id>>
RepoNames == {NameOf(i) : i \in RepoIds}

\* gh_client::Repo as returned by the repository list; one snapshot per seed,
\* with the four counters pairwise different inside a snapshot where possible
RepoInput(id, s) ==
    [id |-> id, full_name |-> NameOf(id),
     stargazers_count |-> s,
     forks_count |-> (s + 1) % (MaxVal + 1),
     watchers_count |-> MaxVal - s,
     open_issues_count |-> (s + 2) % (MaxVal + 1)]
RepoInputs == {RepoInput(i, s) : i \in RepoIds, s \in Vals}

\* gh_client::TrafficDaily
TrafficDoc(d, s) ==
    [timestamp |-> d,
     count |-> (s + d) % (MaxVal + 1),
     uniques |-> (s + d + 1) % (MaxVal + 1)]

\* the daily breakdown of RepoViews / RepoClones: one entry per day of a window
TrafficList(lo, hi, s) == [i \in 1..(hi - lo + 1) |-> TrafficDoc(lo + i - 1, s)]
TrafficLists ==
    {<< >>} \cup {TrafficList(lo, hi, s) : lo \in Dates, hi \in Dates, s \in Vals}

\* a cumulative star history: (date, count) pairs, dates and counts increasing
StarLists ==
    {l \in UNION {[1..n -> Dates \X (1..MaxVal)] : n \in 0..Cardinality(Dates)} :
        \A i \in DOMAIN l : \A j \in DOMAIN l :
            i < j => (l[i][1] < l[j][1] /\ l[i][2] < l[j][2])}

----------------------------------------------------------------------------
(* DbClient: the upserts *)

\* an insert_repo whose conflict clause also resets stars_synced
InsertRepoRowResets(rp, repo) ==
    (repo.id :> [name |-> repo.full_name, stars_synced |-> FALSE]) @@ rp

\* the repos row written by insert_repo; a conflict on id overwrites the name
\* and leaves stars_synced (DEFAULT FALSE) as it is
InsertRepoRow(rp, repo) ==
    IF repo.id \in DOMAIN rp
    THEN [rp EXCEPT ![repo.id].name = repo.full_name]
    ELSE (repo.id :> [name |-> repo.full_name, stars_synced |-> FALSE]) @@ rp

\* an insert_stats that binds the day before
InsertStatsStmtDayBefore(tbl, repo, date) ==
    UpsertStat(tbl, <<repo.id, date - 1>>,
        [stars |-> AsI32(repo.stargazers_count),
         forks |-> AsI32(repo.forks_count),
         watchers |-> AsI32(repo.watchers_count),
         issues |-> AsI32(repo.open_issues_count)])

\* the repo_stats statement of insert_stats
InsertStatsStmt(tbl, repo, date) ==
    UpsertStat(tbl, <<repo.id, date>>,
        [stars |-> AsI32(repo.stargazers_count),
         forks |-> AsI32(repo.forks_count),
         watchers |-> AsI32(repo.watchers_count),
         issues |-> AsI32(repo.open_issues_count)])

\* the statement of insert_stars, once (SELECT id FROM repos ...) gave id
InsertStarsStmt(tbl, id, date, count) ==
    UpsertStat(tbl, <<id, date>>, [stars |-> AsI32(count)])

\* the statement of insert_clones
InsertClonesStmt(tbl, id, doc) ==
    UpsertStat(tbl, <<id, doc.timestamp>>,
        [clones_count |-> AsI32(doc.count),
         clones_uniques |-> AsI32(doc.uniques)])

\* INSERT OR REPLACE: the row is rewritten, other columns back to their defaults
InsertViewsStmtReplaces(tbl, id, doc) ==
    (<<id, doc.timestamp>> :>
        [c \in Cols |-> CASE c = "views_count" -> AsI32(doc.count)
                          [] c = "views_uniques" -> AsI32(doc.uniques)
                          [] OTHER -> ColDefault]) @@ tbl

\* the statement of insert_views
InsertViewsStmt(tbl, id, doc) ==
    UpsertStat(tbl, <<id, doc.timestamp>>,
        [views_count |-> AsI32(doc.count),
         views_uniques |-> AsI32(doc.uniques)])

\* for (date, count) in stars { execute }
RECURSIVE InsertStarsLoop(_, _, _)
InsertStarsLoop(tbl, id, stars) ==
    IF stars = << >> THEN tbl
    ELSE InsertStarsLoop(InsertStarsStmt(tbl, id, Head(stars)[1], Head(stars)[2]),
                         id, Tail(stars))

\* for doc in &clones.clones { execute }
RECURSIVE InsertClonesLoop(_, _, _)
InsertClonesLoop(tbl, id, docs) ==
    IF docs = << >> THEN tbl
    ELSE InsertClonesLoop(InsertClonesStmt(tbl, id, Head(docs)), id, Tail(docs))

\* for doc in &views.views { execute }
RECURSIVE InsertViewsLoop(_, _, _)
InsertViewsLoop(tbl, id, docs) ==
    IF docs = << >> THEN tbl
    ELSE InsertViewsLoop(InsertViewsStmt(tbl, id, Head(docs)), id, Tail(docs))

\* SELECT id FROM repos WHERE name = $1
IdsNamed(rp, name) == {i \in DOMAIN rp : rp[i].name = name}

----------------------------------------------------------------------------
(* History kept beside the store: what the calls bound *)

\* <<key, column, value>> for every value a call binds to a statement
BoundBy(call) ==
    CASE call.op = "insert_stats" ->
            {<< <<call.repo.id, call.date>>, "stars", call.repo.stargazers_count >>,
             << <<call.repo.id, call.date>>, "forks", call.repo.forks_count >>,
             << <<call.repo.id, call.date>>, "watchers", call.repo.watchers_count >>,
             << <<call.repo.id, call.date>>, "issues", call.repo.open_issues_count >>}
      [] call.op = "insert_stars" ->
            {<< <<call.id, call.stars[i][1]>>, "stars", call.stars[i][2] >> :
                i \in DOMAIN call.stars}
      [] call.op = "insert_clones" ->
            {<< <<call.id, call.docs[i].timestamp>>, "clones_count", call.docs[i].count >> :
                i \in DOMAIN call.docs}
            \cup
            {<< <<call.id, call.docs[i].timestamp>>, "clones_uniques", call.docs[i].uniques >> :
                i \in DOMAIN call.docs}
      [] call.op = "insert_views" ->
            {<< <<call.id, call.docs[i].timestamp>>, "views_count", call.docs[i].count >> :
                i \in DOMAIN call.docs}
            \cup
            {<< <<call.id, call.docs[i].timestamp>>, "views_uniques", call.docs[i].uniques >> :
                i \in DOMAIN call.docs}
      [] OTHER -> {}

NoCall == [op |-> "none"]

Record(call) ==
    /\ ncalls' = ncalls + 1
    /\ supplied' = supplied \cup BoundBy(call)
    /\ lastCall' = [call |-> call,
                    again |-> (lastCall.call = call),
                    lower |-> \E t \in BoundBy(call) :
                                /\ t[1] \in DOMAIN repo_stats
                                /\ 0 < t[3]
                                /\ t[3] < repo_stats[t[1]][t[2]]]

----------------------------------------------------------------------------
(* SpecStore: the upserts of DbClient called in any order *)

insert_stats ==
    /\ ncalls < MaxCalls
    /\ \E repo \in RepoInputs, date \in Dates :
        /\ repos' = InsertRepoRow(repos, repo)
        /\ repo_stats' = InsertStatsStmt(repo_stats, repo, date)
        /\ UNCHANGED <<run, popVars, pipeVars>>
        /\ Record([op |-> "insert_stats", repo |-> repo, date |-> date])

\* an unknown name binds NULL to repo_id NOT NULL: the first statement fails
insert_stars ==
    /\ ncalls < MaxCalls
    /\ UNCHANGED <<run, popVars, pipeVars>>
    /\ \E name \in RepoNames, stars \in StarLists :
        \/ /\ IdsNamed(repos, name) = {} \/ stars = << >>
           /\ UNCHANGED <<repos, repo_stats>>
           /\ Record([op |-> "insert_stars", id |-> 0, stars |-> << >>])
        \/ /\ stars # << >>
           /\ \E id \in IdsNamed(repos, name) :
                /\ repo_stats' = InsertStarsLoop(repo_stats, id, stars)
                /\ Record([op |-> "insert_stars", id |-> id, stars |-> stars])
           /\ UNCHANGED repos

insert_clones ==
    /\ ncalls < MaxCalls
    /\ \E id \in RepoIds, docs \in TrafficLists :
        /\ repo_stats' = InsertClonesLoop(repo_stats, id, docs)
        /\ UNCHANGED repos
        /\ UNCHANGED <<run, popVars, pipeVars>>
        /\ Record([op |-> "insert_clones", id |-> id, docs |-> docs])

insert_views ==
    /\ ncalls < MaxCalls
    /\ \E id \in RepoIds, docs \in TrafficLists :
        /\ repo_stats' = InsertViewsLoop(repo_stats, id, docs)
        /\ UNCHANGED repos
        /\ UNCHANGED <<run, popVars, pipeVars>>
        /\ Record([op |-> "insert_views", id |-> id, docs |-> docs])

InitStore ==
    /\ repos = << >>
    /\ repo_stats = << >>
    /\ supplied = {}
    /\ lastCall = [call |-> NoCall, again |-> FALSE, lower |-> FALSE]
    /\ ncalls = 0
    /\ run = << >>
    /\ repo_referrers = << >>
    /\ repo_popular_paths = << >>
    /\ fresh = FALSE
    /\ hidden = {}
    /\ pipe = [pc |-> "off"]
    /\ flt = [pc |-> "off"]
    /\ pg = [pc |-> "off"]
    /\ rd = [op |-> "off"]
    /\ shist = [pc |-> "off"]

NextStore == insert_stats \/ insert_stars \/ insert_clones \/ insert_views

SpecStore == InitStore /\ [][NextStore]_vars

----------------------------------------------------------------------------
(* Claims about the repo_stats upserts *)

\* the greatest element of a non-empty finite set of integers
Maximum(S) == CHOOSE m \in S : \A x \in S : x <= m

SuppliedTo(k, c) == {t[3] : t \in {u \in supplied : u[1] = k /\ u[2] = c}}

\* C1: a repo_stats row exists exactly for the keys some call bound a value to,
\* and every counter of it is the maximum of 0 and the values bound so far to
\* that column of that key.
C1_StoredIsMaxSupplied ==
    \A k \in Keys :
        /\ (k \in DOMAIN repo_stats) <=> (\E t \in supplied : t[1] = k)
        /\ k \in DOMAIN repo_stats =>
            \A c \in Cols : repo_stats[k][c] = Maximum({0} \cup SuppliedTo(k, c))

\* a call has just bound a positive value below the stored one, which stays
C1_Witness ==
    /\ lastCall.lower
    /\ \E k \in DOMAIN repo_stats : \E c \in Cols :
        /\ repo_stats[k][c] = MaxVal
        /\ \E v \in SuppliedTo(k, c) : 0 < v /\ v < MaxVal

\* C2: repeating the call just made changes nothing in the store, and a value
\* bound to a column that already holds at least as much leaves it as it is.
C2_UpsertIdempotent ==
    [][/\ lastCall'.again => (repo_stats' = repo_stats /\ repos' = repos)
       /\ \A t \in BoundBy(lastCall'.call) :
            (t[1] \in DOMAIN repo_stats /\ t[3] <= repo_stats[t[1]][t[2]])
                => repo_stats'[t[1]][t[2]] = repo_stats[t[1]][t[2]]]_vars

\* the same call was made twice in a row and bound a positive value
C2_Witness ==
    /\ lastCall.again
    /\ \E t \in BoundBy(lastCall.call) : t[3] > 0 /\ repo_stats[t[1]][t[2]] = t[3]

\* the columns a call owns
OwnedCols(op) ==
    CASE op = "insert_stats" -> StatCols
      [] op = "insert_stars" -> {"stars"}
      [] op = "insert_clones" -> CloneCols
      [] op = "insert_views" -> ViewCols
      [] OTHER -> {}

TouchedKeys(call) == {t[1] : t \in BoundBy(call)}

\* C3: a call changes, in the rows that exist, only the columns it owns of the
\* keys it binds; every other column and every other row stays as it is.
C3_UpsertFrame ==
    [][\A k \in DOMAIN repo_stats :
        /\ k \in DOMAIN repo_stats'
        /\ \A c \in Cols :
            repo_stats'[k][c] # repo_stats[k][c] =>
                /\ k \in TouchedKeys(lastCall'.call)
                /\ c \in OwnedCols(lastCall'.call.op)]_vars

\* insert_views has just written a row whose stats another call had written
C3_Witness ==
    /\ lastCall.call.op = "insert_views"
    /\ \E k \in TouchedKeys(lastCall.call) :
        /\ repo_stats[k]["stars"] > 0
        /\ repo_stats[k]["forks"] > 0
        /\ repo_stats[k]["views_count"] > 0

----------------------------------------------------------------------------
(* SpecRace: two update_metrics invocations that overlap.  Each SQL        *)
(* statement is one atomic step; the statements of one invocation keep     *)
(* their program order.  One repository, an empty store at the start.      *)

Invs == {"A", "B"}
RaceRepo == CHOOSE i \in RepoIds : \A j \in RepoIds : i <= j

\* what one invocation fetched: the day bucket, the repository, its traffic
\* and, in sync_stars, its cumulative star history
RaceData(date, s, hist) ==
    [date |-> date,
     repo |-> RepoInput(RaceRepo, s),
     views |-> TrafficList(1, date, s),
     clones |-> TrafficList(date, date, (s + 1) % (MaxVal + 1)),
     hist |-> hist]

RaceHists == {l \in StarLists : Len(l) <= 1}
NoDoc == [timestamp |-> 0, count |-> 0, uniques |-> 0]
Stmt(k, doc) == [k |-> k, doc |-> doc]

\* update_repo_metrics: the store statements, in order
IngestProg(d) ==
    <<Stmt("insert_repo", NoDoc), Stmt("insert_repo", NoDoc), Stmt("insert_stats", NoDoc)>>
    \o [i \in 1..Len(d.views) |-> Stmt("insert_views", d.views[i])]
    \o [i \in 1..Len(d.clones) |-> Stmt("insert_clones", d.clones[i])]

\* a query without the WHERE clause
ReposToSyncAll(rp) == DOMAIN rp

\* SELECT * FROM repos WHERE stars_synced = FALSE
ReposToSync(rp) == {i \in DOMAIN rp : ~rp[i].stars_synced}

\* UPDATE repos SET stars_synced = TRUE WHERE id = $1
MarkRepoStarsSynced(rp, id) ==
    IF id \in DOMAIN rp THEN [rp EXCEPT ![id].stars_synced = TRUE] ELSE rp

\* sync_stars: the store statements for the repositories read as unsynced
SyncProg(ts, d) ==
    IF d.repo.id \in ts
    THEN [i \in 1..Len(d.hist) |->
            Stmt("insert_stars", [timestamp |-> d.hist[i][1], count |-> d.hist[i][2],
                                  uniques |-> 0])]
         \o <<Stmt("mark_repo_stars_synced", NoDoc)>>
    ELSE << >>

\* one statement on the store [repos, stats]
ExecStmt(st, stmt, d) ==
    CASE stmt.k = "insert_repo" ->
            [st EXCEPT !.repos = InsertRepoRow(st.repos, d.repo)]
      [] stmt.k = "insert_stats" ->
            [st EXCEPT !.stats = InsertStatsStmt(st.stats, d.repo, d.date)]
      [] stmt.k = "insert_views" ->
            [st EXCEPT !.stats = InsertViewsStmt(st.stats, d.repo.id, stmt.doc)]
      [] stmt.k = "insert_clones" ->
            [st EXCEPT !.stats = InsertClonesStmt(st.stats, d.repo.id, stmt.doc)]
      [] stmt.k = "insert_stars" ->
            IF IdsNamed(st.repos, d.repo.full_name) = {} THEN st
            ELSE [st EXCEPT !.stats =
                    InsertStarsStmt(st.stats,
                        CHOOSE i \in IdsNamed(st.repos, d.repo.full_name) : TRUE,
                        stmt.doc.timestamp, stmt.doc.count)]
      [] stmt.k = "mark_repo_stars_synced" ->
            [st EXCEPT !.repos = MarkRepoStarsSynced(st.repos, d.repo.id)]

RECURSIVE ExecAll(_, _, _)
ExecAll(st, prog, d) ==
    IF prog = << >> THEN st ELSE ExecAll(ExecStmt(st, Head(prog), d), Tail(prog), d)

Store == [repos |-> repos, stats |-> repo_stats]

\* the next statement of invocation v
RaceStmt(v) ==
    /\ run[v].todo # << >>
    /\ LET st == ExecStmt(Store, Head(run[v].todo), run[v].data) IN
        /\ repos' = st.repos
        /\ repo_stats' = st.stats
    /\ run' = [run EXCEPT ![v].todo = Tail(@)]
    /\ UNCHANGED <<storeHist, popVars, pipeVars>>

\* update_deltas has returned; sync_stars reads the repositories to sync
RaceReposToSync(v) ==
    /\ run[v].phase = "ingest"
    /\ run[v].todo = << >>
    /\ run' = [run EXCEPT ![v].phase = "sync",
                          ![v].tosync = ReposToSync(repos),
                          ![v].todo = SyncProg(ReposToSync(repos), run[v].data)]
    /\ UNCHANGED <<repos, repo_stats, storeHist, popVars, pipeVars>>

\* sync_stars and update_metrics return
RaceReturn(v) ==
    /\ run[v].phase = "sync"
    /\ run[v].todo = << >>
    /\ run' = [run EXCEPT ![v].phase = "done"]
    /\ UNCHANGED <<repos, repo_stats, storeHist, popVars, pipeVars>>

InitRace ==
    /\ repos = << >>
    /\ repo_stats = << >>
    /\ supplied = {}
    /\ lastCall = [call |-> NoCall, again |-> FALSE, lower |-> FALSE]
    /\ ncalls = 0
    /\ repo_referrers = << >>
    /\ repo_popular_paths = << >>
    /\ fresh = FALSE
    /\ hidden = {}
    /\ pipe = [pc |-> "off"]
    /\ flt = [pc |-> "off"]
    /\ pg = [pc |-> "off"]
    /\ rd = [op |-> "off"]
    /\ shist = [pc |-> "off"]
    /\ \E da \in Dates, db \in Dates, sa \in Vals, sb \in Vals,
          ha \in RaceHists, hb \in RaceHists :
        /\ da <= db
        /\ run = [v \in Invs |->
                    LET d == IF v = "A" THEN RaceData(da, sa, ha)
                             ELSE RaceData(db, sb, hb) IN
                    [data |-> d, phase |-> "ingest", tosync |-> {},
                     todo |-> IngestProg(d)]]

NextRace == \E v \in Invs : RaceStmt(v) \/ RaceReposToSync(v) \/ RaceReturn(v)

SpecRace == InitRace /\ [][NextRace]_vars

----------------------------------------------------------------------------
(* Claims about overlapping invocations *)

RaceDone == \A v \in Invs : run[v].phase = "done"

\* update_metrics run alone on store st with the data d
SerialRun(st, d) ==
    LET s1 == ExecAll(st, IngestProg(d), d) IN
    ExecAll(s1, SyncProg(ReposToSync(s1.repos), d), d)

EmptyStore == [repos |-> << >>, stats |-> << >>]

SerialStats(first, second) ==
    SerialRun(SerialRun(EmptyStore, run[first].data), run[second].data).stats

\* the statements invocation v has executed so far
Issued(v) ==
    LET full == IF run[v].phase = "ingest" THEN IngestProg(run[v].data)
                ELSE IngestProg(run[v].data) \o SyncProg(run[v].tosync, run[v].data)
    IN SubSeq(full, 1, Len(full) - Len(run[v].todo))

\* the statements issued so far, executed one invocation after the other
IssuedStats(first, second) ==
    ExecAll(ExecAll(EmptyStore, Issued(first), run[first].data),
            Issued(second), run[second].data).stats

NeverLowered ==
    \A k \in DOMAIN repo_stats :
        /\ k \in DOMAIN repo_stats'
        /\ \A c \in Cols : repo_stats'[k][c] >= repo_stats[k][c]

\* C4, amended: at every point of every interleaving repo_stats holds the rows
\* that the statements issued so far give when executed one invocation after
\* the other, in either order, and no step lowers a counter or removes a row.
C4_SameAsIssuedInEitherOrder ==
    /\ [](/\ repo_stats = IssuedStats("A", "B")
          /\ repo_stats = IssuedStats("B", "A"))
    /\ [][NeverLowered]_vars

\* both invocations have returned, each read the repository as unsynced while
\* the other was running, and they bound different values to the same day
C4_Witness ==
    /\ RaceDone
    /\ \A v \in Invs : run[v].tosync = {RaceRepo} /\ run[v].data.hist # << >>
    /\ run["A"].data.date = run["B"].data.date
    /\ run["A"].data.repo # run["B"].data.repo
    /\ run["A"].data.hist # run["B"].data.hist

\* C4 as claimed: when both overlapping invocations have returned, repo_stats
\* holds the rows of the two invocations run one after the other, in either order.
C4_SameAsSerialRuns ==
    RaceDone => /\ repo_stats = SerialStats("A", "B")
                /\ repo_stats = SerialStats("B", "A")

----------------------------------------------------------------------------
(* SpecDeltas: repo_referrers, repo_popular_paths and update_deltas *)

MaxInserts == 2          \* insert_referrers / insert_paths calls per behaviour
PopDates == {1, 2, 3}    \* three day buckets
Referrers == {"g", "h"}
Paths == {"/p"}

\* gh_client::RepoReferrer / RepoPopularPath: a name with its raw counters
PopDoc(n, v) == [name |-> n, count |-> v, uniques |-> MaxVal - v]

\* the response of traffic_refs: no entry, one referrer, or both
ReferrerDocs ==
    {<< >>}
    \cup {<<PopDoc("g", v)>> : v \in Vals}
    \cup {<<PopDoc("g", v), PopDoc("h", MaxVal - v)>> : v \in Vals}

\* the response of traffic_paths
PathDocs == {<< >>} \cup {<<PopDoc(n, v)>> : n \in Paths, v \in Vals}

\* count_delta and uniques_delta are INTEGER NOT NULL DEFAULT 0
DeltaDefault == 0

\* a LAG that looks at the calendar day before instead of the previous row
LagOfYesterday(tbl, key, col) ==
    IF <<key[1], key[2] - 1, key[3]>> \in DOMAIN tbl
    THEN tbl[<<key[1], key[2] - 1, key[3]>>][col] ELSE 0

\* an update_deltas without the MAX(0, ...) clamp
UpdateDeltasUnclamped(tbl) ==
    [k \in DOMAIN tbl |->
        LET prev == {j \in DOMAIN tbl : j[1] = k[1] /\ j[3] = k[3] /\ j[2] < k[2]}
            last == CHOOSE j \in prev : \A i \in prev : i[2] <= j[2]
        IN [tbl[k] EXCEPT
              !.uniques_delta = tbl[k].uniques - (IF prev = {} THEN 0 ELSE tbl[last].uniques),
              !.count_delta = tbl[k].count - (IF prev = {} THEN 0 ELSE tbl[last].count)]]

\* INSERT INTO repo_referrers / repo_popular_paths (..., count, uniques)
\* (the title of a path is written on insert only and takes no part in any
\* computation; it is left out of the row)
\* ON CONFLICT(repo_id, date, name) DO UPDATE SET count = MAX, uniques = MAX
UpsertPop(tbl, key, doc) ==
    IF key \in DOMAIN tbl
    THEN [tbl EXCEPT ![key].count = SqlMax(@, AsI32(doc.count)),
                     ![key].uniques = SqlMax(@, AsI32(doc.uniques))]
    ELSE (key :> [count |-> AsI32(doc.count), uniques |-> AsI32(doc.uniques),
                  count_delta |-> DeltaDefault, uniques_delta |-> DeltaDefault])
         @@ tbl

\* for rec in docs { execute }
RECURSIVE InsertPopLoop(_, _, _, _)
InsertPopLoop(tbl, id, date, docs) ==
    IF docs = << >> THEN tbl
    ELSE InsertPopLoop(UpsertPop(tbl, <<id, date, Head(docs).name>>, Head(docs)),
                       id, date, Tail(docs))

\* the dates of the rows of one partition (repo_id, name), ORDER BY date
\* (dates are "%Y-%m-%d" texts, whose text order is the order of the days)
RECURSIVE SortedDates(_)
SortedDates(S) ==
    IF S = {} THEN << >>
    ELSE LET d == CHOOSE x \in S : \A y \in S : x <= y
         IN <<d>> \o SortedDates(S \ {d})

Partition(tbl, id, n) == SortedDates({k[2] : k \in {j \in DOMAIN tbl : j[1] = id /\ j[3] = n}})

\* COALESCE(LAG(col) OVER (PARTITION BY repo_id, name ORDER BY date), 0)
LagOrZero(tbl, key, col) ==
    LET part == Partition(tbl, key[1], key[3])
        i == CHOOSE j \in DOMAIN part : part[j] = key[2]
    IN IF i = 1 THEN 0 ELSE tbl[<<key[1], part[i - 1], key[3]>>][col]

\* the UPDATE of update_deltas on one table
UpdateDeltasOf(tbl) ==
    [k \in DOMAIN tbl |->
        [tbl[k] EXCEPT
            !.uniques_delta = SqlMax(0, tbl[k].uniques - LagOrZero(tbl, k, "uniques")),
            !.count_delta = SqlMax(0, tbl[k].count - LagOrZero(tbl, k, "count"))]]

insert_referrers ==
    /\ ncalls < MaxInserts
    /\ \E id \in RepoIds, date \in PopDates, docs \in ReferrerDocs :
        repo_referrers' = InsertPopLoop(repo_referrers, id, date, docs)
    /\ ncalls' = ncalls + 1
    /\ fresh' = FALSE
    /\ UNCHANGED <<repos, repo_stats, supplied, lastCall, run, repo_popular_paths, pipeVars>>

insert_paths ==
    /\ ncalls < MaxInserts
    /\ \E id \in RepoIds, date \in PopDates, docs \in PathDocs :
        repo_popular_paths' = InsertPopLoop(repo_popular_paths, id, date, docs)
    /\ ncalls' = ncalls + 1
    /\ fresh' = FALSE
    /\ UNCHANGED <<repos, repo_stats, supplied, lastCall, run, repo_referrers, pipeVars>>

update_deltas ==
    /\ repo_referrers' = UpdateDeltasOf(repo_referrers)
    /\ repo_popular_paths' = UpdateDeltasOf(repo_popular_paths)
    /\ fresh' = TRUE
    /\ UNCHANGED <<repos, repo_stats, storeHist, run, pipeVars>>

InitDeltas ==
    /\ repos = << >>
    /\ repo_stats = << >>
    /\ supplied = {}
    /\ lastCall = [call |-> NoCall, again |-> FALSE, lower |-> FALSE]
    /\ ncalls = 0
    /\ run = << >>
    /\ repo_referrers = << >>
    /\ repo_popular_paths = << >>
    /\ fresh = FALSE
    /\ hidden = {}
    /\ pipe = [pc |-> "off"]
    /\ flt = [pc |-> "off"]
    /\ pg = [pc |-> "off"]
    /\ rd = [op |-> "off"]
    /\ shist = [pc |-> "off"]

NextDeltas == insert_referrers \/ insert_paths \/ update_deltas

SpecDeltas == InitDeltas /\ [][NextDeltas]_vars

PopTables == <<repo_referrers, repo_popular_paths>>

\* the rows of the same (repo, name) series that are dated before row k
Earlier(tbl, k) == {j \in DOMAIN tbl : j[1] = k[1] /\ j[3] = k[3] /\ j[2] < k[2]}

\* the raw value of the immediate predecessor of row k, 0 when there is none
Predecessor(tbl, k, col) ==
    IF Earlier(tbl, k) = {} THEN 0
    ELSE tbl[CHOOSE j \in Earlier(tbl, k) : \A i \in Earlier(tbl, k) : i[2] <= j[2]][col]

Clamp(x) == IF x > 0 THEN x ELSE 0

\* a series stored with raw counts 50, 80, 60, 90 and arbitrary old deltas
ExampleSeries ==
    [k \in {<<1, d, "g">> : d \in 1..4} |->
        [count |-> <<50, 80, 60, 90>>[k[2]], uniques |-> <<9, 9, 4, 4>>[k[2]],
         count_delta |-> 7, uniques_delta |-> k[2]]]

\* C5: once update_deltas has returned, every row of repo_referrers and
\* repo_popular_paths has count_delta = max(0, count - count of the row before
\* it in its (repo, name) series ordered by date), a missing predecessor
\* counting as 0, and likewise uniques_delta, whatever the delta columns held
\* before; the raw counts 50, 80, 60, 90 get the deltas 50, 30, 0, 30.
C5_DeltasAreClampedDifferences ==
    /\ fresh =>
        \A t \in 1..2 : \A k \in DOMAIN PopTables[t] :
            /\ PopTables[t][k].count_delta
                 = Clamp(PopTables[t][k].count - Predecessor(PopTables[t], k, "count"))
            /\ PopTables[t][k].uniques_delta
                 = Clamp(PopTables[t][k].uniques - Predecessor(PopTables[t], k, "uniques"))
    /\ [d \in 1..4 |-> UpdateDeltasOf(ExampleSeries)[<<1, d, "g">>].count_delta]
         = <<50, 30, 0, 30>>

\* update_deltas has returned on a series with a gap in its dates whose later
\* row has the lower count, and on a second series of the same table
C5_Witness ==
    /\ fresh
    /\ \E id \in RepoIds :
        /\ {<<id, 1, "g">>, <<id, 3, "g">>, <<id, 3, "h">>} \subseteq DOMAIN repo_referrers
        /\ <<id, 2, "g">> \notin DOMAIN repo_referrers
        /\ repo_referrers[<<id, 3, "g">>].count < repo_referrers[<<id, 1, "g">>].count
        /\ repo_referrers[<<id, 3, "g">>].uniques > repo_referrers[<<id, 1, "g">>].uniques

\* C6: in every reachable state, also between an insert and the next
\* update_deltas, no row has a negative count_delta or uniques_delta.
C6_NoNegativeDelta ==
    \A t \in 1..2 : \A k \in DOMAIN PopTables[t] :
        /\ PopTables[t][k].count_delta >= 0
        /\ PopTables[t][k].uniques_delta >= 0

\* rows were inserted after the last update_deltas, and a row's raw count is
\* below its predecessor's, so the unclamped difference would be negative
C6_Witness ==
    /\ ~fresh
    /\ \E t \in 1..2 : \E k \in DOMAIN PopTables[t] :
        /\ Earlier(PopTables[t], k) # {}
        /\ PopTables[t][k].count < Predecessor(PopTables[t], k, "count")
        /\ \E j \in Earlier(PopTables[t], k) : PopTables[t][j].count_delta > 0

----------------------------------------------------------------------------
(* SpecPipe: one invocation of update_metrics *)

PipeIds == {1, 2, 3}
Listing == <<1, 2, 3>>       \* the repositories get_repos returns, in order
SyncBudget == 1000           \* if pages_collected > 1000 { break }
PerPage == 100               \* let per_page = 100

\* an update_repo_metrics that stores the repository before it fetches
RepoStepsWriteFirst ==
    <<"insert_repo", "get_open_pull_requests", "traffic_views", "traffic_clones",
      "traffic_refs", "traffic_paths", "insert_stats", "insert_views",
      "insert_clones", "insert_referrers", "insert_paths">>

\* the calls of update_repo_metrics, in order
RepoSteps ==
    <<"get_open_pull_requests", "traffic_views", "traffic_clones", "traffic_refs",
      "traffic_paths", "insert_repo", "insert_stats", "insert_views",
      "insert_clones", "insert_referrers", "insert_paths">>

\* what the remote returns for a repository on the day of the run
Seed(id) == id % (MaxVal + 1)
PipeRepo(id) == RepoInput(id, Seed(id))
PipeViews(id, date) == TrafficList(1, date, Seed(id))
PipeClones(id, date) == TrafficList(date, date, Seed(id + 1))
PipeRefs(id) == <<PopDoc("g", Seed(id))>>
PipePaths(id) == <<PopDoc("/p", Seed(id + 1))>>

\* results of get_stars_history, (date, acc_stars, new_stars): no stargazer,
\* one stargazer, and 50001 stargazers over two days
PipeHists ==
    {<< >>,
     <<<<1, 1, 1>>>>,
     <<<<1, 50000, 50000>>, <<2, 50001, 1>>>>}

Db == [repos |-> repos, stats |-> repo_stats,
       referrers |-> repo_referrers, paths |-> repo_popular_paths]

\* the effect of one call of update_repo_metrics that returned Ok
ExecRepoStep(db, step, id, date) ==
    CASE step = "insert_repo" ->
            [db EXCEPT !.repos = InsertRepoRow(db.repos, PipeRepo(id))]
      [] step = "insert_stats" ->
            [db EXCEPT !.repos = InsertRepoRow(db.repos, PipeRepo(id)),
                       !.stats = InsertStatsStmt(db.stats, PipeRepo(id), date)]
      [] step = "insert_views" ->
            [db EXCEPT !.stats = InsertViewsLoop(db.stats, id, PipeViews(id, date))]
      [] step = "insert_clones" ->
            [db EXCEPT !.stats = InsertClonesLoop(db.stats, id, PipeClones(id, date))]
      [] step = "insert_referrers" ->
            [db EXCEPT !.referrers = InsertPopLoop(db.referrers, id, date, PipeRefs(id))]
      [] step = "insert_paths" ->
            [db EXCEPT !.paths = InsertPopLoop(db.paths, id, date, PipePaths(id))]
      [] OTHER -> db

SetDb(db) ==
    /\ repos' = db.repos
    /\ repo_stats' = db.stats
    /\ repo_referrers' = db.referrers
    /\ repo_popular_paths' = db.paths

\* an error that is swallowed: the invocation goes on with the reconciliation
AbortCarriesOn(p, at) == [p EXCEPT !.pc = "check_hidden_repos", !.failedAt = at]

\* update_metrics returns Err(e) from the call named by at
Abort(p, at) == [p EXCEPT !.pc = "done", !.result = "err", !.failedAt = at]

\* a loop that recomputes the deltas after every repository
NextRepoDeltasEach(p) == [p EXCEPT !.todo = Tail(@), !.step = 1, !.pc = "update_deltas"]

\* the for loop moves to the next repository, or ends
NextRepo(p) ==
    [p EXCEPT !.todo = Tail(@), !.step = 1,
              !.pc = IF Tail(p.todo) = << >> THEN "update_deltas" ELSE "loop"]

\* an Err arm that propagates the error of update_repo_metrics
OnRepoErrAborts(p, id) == Abort(p, "update_repo_metrics")

\* Err(e) => { tracing::warn!(...); continue; }
OnRepoErr(p, id) == NextRepo([p EXCEPT !.log = Append(@, <<"metrics", id>>)])

\* history: the call op on arg has returned with outcome res
Called(p, op, arg, res) == [p EXCEPT !.calls = Append(@, <<op, arg, res>>)]

\* let repos = state.gh.get_repos(state.include_private).await?
get_repos ==
    /\ pipe.pc = "get_repos"
    /\ \/ pipe' = Called([pipe EXCEPT !.pc = "check_hidden_repos"], "get_repos", 0, "ok")
       \/ pipe' = Called(Abort(pipe, "get_repos"), "get_repos", 0, "err")
    /\ UNCHANGED <<repos, repo_stats, storeHist, run, popVars, hidden, flt, pg, rd, shist>>

\* get_repos_ids: the ids of the stored repositories
GetReposIds(rp) == DOMAIN rp

\* mark_repo_hidden: flags the given ids
MarkRepoHidden(h, ids) == h \cup ids

\* a filter that keeps the ids that are listed
HiddenListed(was_ids, now_ids) ==
    {id \in was_ids : \E i \in DOMAIN now_ids : now_ids[i] = id}

\* was_ids.into_iter().filter(|id| !now_ids.contains(id))
HiddenNow(was_ids, now_ids) ==
    {id \in was_ids : \A i \in DOMAIN now_ids : now_ids[i] # id}

\* check_hidden_repos, then the filter over the listing
check_hidden_repos ==
    /\ pipe.pc = "check_hidden_repos"
    /\ \/ /\ hidden' = MarkRepoHidden(hidden, HiddenNow(GetReposIds(repos), Listing))
          /\ LET todo == SelectSeq(Listing, LAMBDA id : id \in pipe.incl) IN
                pipe' = Called([pipe EXCEPT !.todo = todo,
                                     !.pc = IF todo = << >> THEN "update_deltas" ELSE "loop"],
                               "check_hidden_repos", 0, "ok")
       \/ /\ pipe' = Called(Abort(pipe, "check_hidden_repos"), "check_hidden_repos", 0, "err")
          /\ UNCHANGED hidden
    /\ UNCHANGED <<repos, repo_stats, storeHist, run, popVars, flt, pg, rd, shist>>

\* the dates of the rows of a table that a call inserted or changed
ChangedDates(old, new) ==
    {k[2] : k \in {j \in DOMAIN new : j \notin DOMAIN old \/ old[j] # new[j]}}

DbChangedDates(old, new) ==
    ChangedDates(old.stats, new.stats)
    \cup ChangedDates(old.referrers, new.referrers)
    \cup ChangedDates(old.paths, new.paths)

\* the next call of update_repo_metrics returns Ok
repo_step_ok ==
    /\ pipe.pc = "loop"
    /\ LET id == Head(pipe.todo)
           step == RepoSteps[pipe.step]
           db == ExecRepoStep(Db, step, id, pipe.date)
           p == [pipe EXCEPT !.tried = @ \cup {id},
                             !.before = IF pipe.step = 1 THEN Db ELSE @,
                             !.dates = @ \cup {<<step, d>> : d \in DbChangedDates(Db, db)}] IN
        /\ SetDb(db)
        /\ fresh' = IF step \in {"insert_referrers", "insert_paths"} THEN FALSE ELSE fresh
        /\ pipe' = IF pipe.step = Len(RepoSteps)
                   THEN NextRepo(Called([p EXCEPT !.ok = @ \cup {id}],
                                        "update_repo_metrics", id, "ok"))
                   ELSE [p EXCEPT !.step = @ + 1]
    /\ UNCHANGED <<storeHist, run, hidden, flt, pg, rd, shist>>

\* the next call of update_repo_metrics returns Err
repo_step_err ==
    /\ pipe.pc = "loop"
    /\ LET id == Head(pipe.todo) IN
        pipe' = OnRepoErr(Called([pipe EXCEPT !.tried = @ \cup {id},
                                              !.before = IF pipe.step = 1 THEN Db ELSE @,
                                              !.failures = @ \cup {<<id, RepoSteps[pipe.step]>>}],
                                 "update_repo_metrics", id, "err"), id)
    /\ UNCHANGED <<repos, repo_stats, storeHist, run, popVars, hidden, flt, pg, rd, shist>>

\* state.db.update_deltas().await?
pipe_update_deltas ==
    /\ pipe.pc = "update_deltas"
    /\ \/ /\ repo_referrers' = UpdateDeltasOf(repo_referrers)
          /\ repo_popular_paths' = UpdateDeltasOf(repo_popular_paths)
          /\ fresh' = TRUE
          /\ pipe' = Called([pipe EXCEPT !.pc = "repos_to_sync"], "update_deltas", 0, "ok")
       \/ /\ pipe' = Called(Abort(pipe, "update_deltas"), "update_deltas", 0, "err")
          /\ UNCHANGED popVars
    /\ UNCHANGED <<repos, repo_stats, storeHist, run, hidden, flt, pg, rd, shist>>

\* sync_stars: let repos = db.repos_to_sync().await?
repos_to_sync ==
    /\ pipe.pc = "repos_to_sync"
    /\ \/ LET ts == SortedDates(ReposToSync(repos)) IN
            pipe' = Called([pipe EXCEPT !.tosync = ts, !.pages = 0,
                                        !.pc = IF ts = << >> THEN "done" ELSE "sync_stars",
                                        !.result = IF ts = << >> THEN "ok" ELSE @],
                           "repos_to_sync", 0, "ok")
       \/ pipe' = Called(Abort(pipe, "repos_to_sync"), "repos_to_sync", 0, "err")
    /\ UNCHANGED <<repos, repo_stats, storeHist, run, popVars, hidden, flt, pg, rd, shist>>

RECURSIVE SumNew(_)
SumNew(stars) == IF stars = << >> THEN 0 ELSE Head(stars)[3] + SumNew(Tail(stars))

\* sync_stars returns Ok(())
SyncReturn(p) == [p EXCEPT !.pc = "done", !.result = "ok"]

\* an iteration that counts the pages and never compares them with the budget
SyncCountNoBudget(p, stars) ==
    LET pages == p.pages + ((SumNew(stars) + 99) \div 100)
        q == [p EXCEPT !.pages = pages, !.tosync = Tail(@)]
    IN IF Tail(p.tosync) = << >> THEN SyncReturn(q) ELSE q

\* the end of one iteration of the loop of sync_stars
SyncCount(p, stars) ==
    LET pages == p.pages + ((SumNew(stars) + 99) \div 100)
        q == [p EXCEPT !.pages = pages, !.tosync = Tail(@)]
    IN IF pages > SyncBudget \/ Tail(p.tosync) = << >> THEN SyncReturn(q) ELSE q

\* the stargazer page requests of with_pagination for a repository of n
\* stargazers: page 1, then one more page for every response with rel="next"
PagesRequested(n) == IF n <= PerPage THEN 1 ELSE (n + PerPage - 1) \div PerPage

\* an Err arm that goes on with the next repository
OnFetchErrContinues(p, id) ==
    LET q == [p EXCEPT !.log = Append(@, <<"stars", id>>), !.tosync = Tail(@)]
    IN IF Tail(p.tosync) = << >> THEN SyncReturn(q) ELSE q

\* Err(e) => { tracing::warn!(...); break; }
OnFetchErr(p, id) == SyncReturn([p EXCEPT !.log = Append(@, <<"stars", id>>)])

\* one iteration of the loop of sync_stars
sync_repo ==
    /\ pipe.pc = "sync_stars"
    /\ LET id == Head(pipe.tosync)
           p == [pipe EXCEPT !.before = Db] IN
        \/ /\ pipe' = OnFetchErr(Called([p EXCEPT !.reqs = @ + 1], "sync", id, "fetch_err"), id)
           /\ UNCHANGED <<repos, repo_stats>>
        \/ \E stars \in PipeHists :
            LET q == [p EXCEPT !.reqs = @ + PagesRequested(SumNew(stars)),
                               !.fetched = (id :> stars) @@ @] IN
            \/ /\ pipe' = Called(Abort(q, "insert_stars"), "sync", id, "insert_err")
               /\ UNCHANGED <<repos, repo_stats>>
            \/ /\ repo_stats' = InsertStarsLoop(repo_stats, id, stars)
               /\ \/ /\ pipe' = Called(Abort(q, "mark_repo_stars_synced"), "sync", id, "mark_err")
                     /\ UNCHANGED repos
                  \/ /\ repos' = MarkRepoStarsSynced(repos, id)
                     /\ pipe' = SyncCount(Called([q EXCEPT !.synced = @ \cup {id}],
                                                 "sync", id, "ok"), stars)
    /\ UNCHANGED <<storeHist, run, popVars, hidden, flt, pg, rd, shist>>

\* what earlier invocations left in the store: nothing, or the rows of day 1
\* of repository 2 (star history already synced) and of repository 4 (not yet
\* synced), which the remote no longer lists
StoredDbs ==
    {[repos |-> << >>, stats |-> << >>, referrers |-> << >>, paths |-> << >>],
     [repos |-> (2 :> [name |-> NameOf(2), stars_synced |-> TRUE])
                @@ (4 :> [name |-> NameOf(4), stars_synced |-> FALSE]),
      stats |-> InsertStatsStmt(InsertStatsStmt(<< >>, PipeRepo(2), 1), PipeRepo(4), 1),
      referrers |-> UpdateDeltasOf(InsertPopLoop(<< >>, 2, 1, PipeRefs(2))),
      paths |-> << >>]}

InitPipe ==
    /\ \E db \in StoredDbs :
        /\ repos = db.repos
        /\ repo_stats = db.stats
        /\ repo_referrers = db.referrers
        /\ repo_popular_paths = db.paths
    /\ supplied = {}
    /\ lastCall = [call |-> NoCall, again |-> FALSE, lower |-> FALSE]
    /\ ncalls = 0
    /\ run = << >>
    /\ fresh = FALSE
    /\ hidden = {}
    /\ flt = [pc |-> "off"]
    /\ pg = [pc |-> "off"]
    /\ rd = [op |-> "off"]
    /\ shist = [pc |-> "off"]
    /\ \E date \in Dates, incl \in SUBSET PipeIds :
        pipe = [pc |-> "get_repos", date |-> date, incl |-> incl, todo |-> << >>,
                step |-> 1, tried |-> {}, ok |-> {}, failures |-> {}, log |-> << >>,
                dates |-> {}, calls |-> << >>, start |-> Db, before |-> Db, reqs |-> 0,
                fetched |-> << >>,
                tosync |-> << >>, pages |-> 0, synced |-> {},
                result |-> "running", failedAt |-> "none"]

NextPipe ==
    \/ get_repos
    \/ check_hidden_repos
    \/ repo_step_ok
    \/ repo_step_err
    \/ pipe_update_deltas
    \/ repos_to_sync
    \/ sync_repo

SpecPipe == InitPipe /\ [][NextPipe]_vars

\* the for loop over the included repositories has ended
LoopOver ==
    \/ pipe.pc \in {"update_deltas", "repos_to_sync", "sync_stars"}
    \/ pipe.pc = "done" /\ pipe.failedAt \notin {"get_repos", "check_hidden_repos"}

\* the rows update_repo_metrics writes for a repository are stored
Upserted(id) ==
    /\ id \in DOMAIN repos
    /\ <<id, pipe.date>> \in DOMAIN repo_stats
    /\ repo_stats[<<id, pipe.date>>].stars >= PipeRepo(id).stargazers_count
    /\ repo_stats[<<id, pipe.date>>].views_count >= PipeViews(id, pipe.date)[pipe.date].count
    /\ repo_stats[<<id, pipe.date>>].clones_count >= PipeClones(id, pipe.date)[1].count
    /\ <<id, pipe.date, "g">> \in DOMAIN repo_referrers
    /\ <<id, pipe.date, "/p">> \in DOMAIN repo_popular_paths

Failed == {f[1] : f \in pipe.failures}
MetricsLog == SelectSeq(pipe.log, LAMBDA e : e[1] = "metrics")
TrafficFetches == {"traffic_views", "traffic_clones", "traffic_refs", "traffic_paths"}

\* C7: an error of a fetch or an upsert of one included repository does not
\* stop the loop of update_metrics and does not make the invocation fail:
\* when the loop has ended every included repository was processed, those
\* without an error are upserted, and each failing one is logged once. With
\* three repositories of which the 2nd fails a traffic fetch, the 1st and the
\* 3rd are upserted and exactly one failure is logged.
C7_RepoFailureIsIsolated ==
    /\ pipe.failedAt # "update_repo_metrics"
    /\ pipe.pc = "loop" => pipe.result = "running"
    /\ LoopOver =>
        /\ pipe.tried = pipe.incl
        /\ pipe.ok = pipe.incl \ Failed
        /\ \A id \in pipe.ok : Upserted(id)
        /\ Len(MetricsLog) = Cardinality(Failed)
        /\ \A id \in Failed : \E i \in DOMAIN MetricsLog : MetricsLog[i] = <<"metrics", id>>
    /\ \A step \in TrafficFetches :
        (LoopOver /\ pipe.incl = PipeIds /\ pipe.failures = {<<2, step>>}) =>
            /\ Upserted(1)
            /\ Upserted(3)
            /\ MetricsLog = <<<<"metrics", 2>>>>

\* the invocation returned Ok after the 2nd of three included repositories
\* failed its views fetch
C7_Witness ==
    /\ pipe.pc = "done"
    /\ pipe.result = "ok"
    /\ pipe.incl = PipeIds
    /\ pipe.failures = {<<2, "traffic_views">>}
    /\ pipe.ok = {1, 3}
    /\ pipe.log = <<<<"metrics", 2>>>>

----------------------------------------------------------------------------
(* SpecFilter: GhsFilter::new and GhsFilter::is_included *)
(* A string is the sequence of its characters.                              *)

MaxRules == 3     \* comma-separated rules in the rule string

\* the rules a rule string is made of
TokWild == <<"a", "/", "*">>
TokNotWild == <<"!", "a", "/", "*">>
TokExact == <<" ", "A", "/", "b">>
TokNotExact == <<"!", "a", "/", "b">>
TokFork == <<"!", "f", "o", "r", "k">>
TokArchived == <<"!", "a", "r", "c", "h", "i", "v", "e", "d">>
TokStar == <<"*">>
TokBad == <<"-", "*">>
TokNoName == <<"a", "/">>
TokenOrder == <<TokWild, TokNotWild, TokExact, TokNotExact, TokFork, TokArchived,
                TokStar, TokBad, TokNoName>>
Tokens == {TokenOrder[i] : i \in DOMAIN TokenOrder}

\* the names is_included is asked about: a/b, " A/c", aa/b, and the
\* malformed a, a/, /b, a/b/c and the empty name
Names == {<<"a", "/", "b">>, <<" ", "A", "/", "c">>, <<"a", "a", "/", "b">>, <<"a">>,
          <<"a", "/">>, <<"/", "b">>, <<"a", "/", "b", "/", "c">>, << >>}

RuleLists == UNION {[1..n -> Tokens] : n \in 0..MaxRules}

RECURSIVE Join(_)
Join(toks) ==
    IF toks = << >> THEN << >>
    ELSE IF Len(toks) = 1 THEN Head(toks)
    ELSE Head(toks) \o <<",">> \o Join(Tail(toks))

\* str::trim
RECURSIVE TrimStart(_)
TrimStart(str) ==
    IF str # << >> /\ Head(str) = " " THEN TrimStart(Tail(str)) ELSE str

RECURSIVE TrimEnd(_)
TrimEnd(str) ==
    IF str # << >> /\ str[Len(str)] = " " THEN TrimEnd(SubSeq(str, 1, Len(str) - 1)) ELSE str

Trim(str) == TrimEnd(TrimStart(str))

\* str::to_lowercase
LowerChar(c) ==
    CASE c = "A" -> "a"
      [] c = "B" -> "b"
      [] c = "C" -> "c"
      [] OTHER -> c

ToLowercase(str) == [i \in DOMAIN str |-> LowerChar(str[i])]

\* str::split(",")
RECURSIVE Split(_, _)
Split(str, cur) ==
    IF str = << >> THEN <<cur>>
    ELSE IF Head(str) = "," THEN <<cur>> \o Split(Tail(str), << >>)
    ELSE Split(Tail(str), Append(cur, Head(str)))

\* str::matches(c).count()
RECURSIVE Count(_, _)
Count(str, c) ==
    IF str = << >> THEN 0
    ELSE (IF Head(str) = c THEN 1 ELSE 0) + Count(Tail(str), c)

StartsWith(str, pre) == Len(str) >= Len(pre) /\ SubSeq(str, 1, Len(pre)) = pre
EndsWith(str, suf) ==
    Len(str) >= Len(suf) /\ SubSeq(str, Len(str) - Len(suf) + 1, Len(str)) = suf

\* a loop body without the test of the number of '/'
NewRuleKeepsAll(f, rule) ==
    IF rule = << >> THEN f
    ELSE IF rule = <<"*">> THEN [f EXCEPT !.default_all = TRUE]
    ELSE IF rule = <<"!", "f", "o", "r", "k">> THEN [f EXCEPT !.exclude_forks = TRUE]
    ELSE IF rule = <<"!", "a", "r", "c", "h", "i", "v", "e", "d">>
         THEN [f EXCEPT !.exclude_archs = TRUE]
    ELSE IF StartsWith(rule, <<"!">>) THEN [f EXCEPT !.exclude_repos = Append(@, Tail(rule))]
    ELSE [f EXCEPT !.include_repos = Append(@, rule)]

\* the body of the for loop of GhsFilter::new
NewRule(f, rule) ==
    IF rule = << >> THEN f
    ELSE IF rule = <<"*">> THEN [f EXCEPT !.default_all = TRUE]
    ELSE IF rule = <<"!", "f", "o", "r", "k">> THEN [f EXCEPT !.exclude_forks = TRUE]
    ELSE IF rule = <<"!", "a", "r", "c", "h", "i", "v", "e", "d">>
         THEN [f EXCEPT !.exclude_archs = TRUE]
    ELSE IF Count(rule, "/") # 1 THEN f
    ELSE IF StartsWith(rule, <<"!">>) THEN [f EXCEPT !.exclude_repos = Append(@, Tail(rule))]
    ELSE [f EXCEPT !.include_repos = Append(@, rule)]

RECURSIVE NewLoop(_, _)
NewLoop(f, rules) ==
    IF rules = << >> THEN f ELSE NewLoop(NewRule(f, Trim(Head(rules))), Tail(rules))

\* a constructor without the "if no repo rules, include all by default" step
NewWithoutDefault(rules) ==
    NewLoop([default_all |-> FALSE, exclude_forks |-> FALSE,
             exclude_archs |-> FALSE, include_repos |-> << >>,
             exclude_repos |-> << >>],
            Split(ToLowercase(Trim(rules)), << >>))

\* GhsFilter::new
New(rules) ==
    LET f == NewLoop([default_all |-> FALSE, exclude_forks |-> FALSE,
                      exclude_archs |-> FALSE, include_repos |-> << >>,
                      exclude_repos |-> << >>],
                     Split(ToLowercase(Trim(rules)), << >>))
    IN IF f.exclude_repos = << >> /\ f.include_repos = << >>
       THEN [f EXCEPT !.default_all = TRUE] ELSE f

\* wildcards are never skipped
NeverSkip(f, is_fork, is_arch) == FALSE

\* skip wildcards for forks / archived
SkipWildcards(f, is_fork, is_arch) ==
    (f.exclude_forks /\ is_fork) \/ (f.exclude_archs /\ is_arch)

\* a wildcard test without the look at the character after the owner
WildcardPrefixOnly(rule, repo) ==
    /\ EndsWith(rule, <<"/", "*">>)
    /\ StartsWith(repo, SubSeq(rule, 1, Len(rule) - 2))

\* rule.ends_with("/*") && repo.starts_with(&rule[..rule.len() - 2])
\*   && repo.chars().nth(rule.len() - 2) == Some('/')
WildcardHit(rule, repo) ==
    /\ EndsWith(rule, <<"/", "*">>)
    /\ StartsWith(repo, SubSeq(rule, 1, Len(rule) - 2))
    /\ Len(repo) >= Len(rule) - 1
    /\ repo[Len(rule) - 1] = "/"

\* a loop that returns after looking at its first rule only
ScanFirstOnly(rules, repo, skip) ==
    rules # << >> /\ (Head(rules) = repo \/ (~skip /\ WildcardHit(Head(rules), repo)))

\* for rule in rules: does some rule return
RECURSIVE Scan(_, _, _)
Scan(rules, repo, skip) ==
    IF rules = << >> THEN FALSE
    ELSE IF Head(rules) = repo THEN TRUE
    ELSE IF skip THEN Scan(Tail(rules), repo, skip)
    ELSE IF WildcardHit(Head(rules), repo) THEN TRUE
    ELSE Scan(Tail(rules), repo, skip)

\* a scan that looks at the include rules first
PassesIncludeFirst(f) ==
    <<[flag |-> TRUE, rules |-> f.include_repos],
      [flag |-> FALSE, rules |-> f.exclude_repos]>>

\* vec![(false, &self.exclude_repos), (true, &self.include_repos)]
Passes(f) ==
    <<[flag |-> FALSE, rules |-> f.exclude_repos],
      [flag |-> TRUE, rules |-> f.include_repos]>>

\* a name test that only counts the '/'
OnlyCountsSlashes(repo) == Count(repo, "/") # 1

\* repo.is_empty() || repo.matches('/').count() != 1
\*   || repo.starts_with('/') || repo.ends_with('/')
IsInvalidName(repo) ==
    \/ repo = << >>
    \/ Count(repo, "/") # 1
    \/ StartsWith(repo, <<"/">>)
    \/ EndsWith(repo, <<"/">>)

\* GhsFilter::is_included
IsIncluded(f, name, is_fork, is_arch) ==
    LET repo == ToLowercase(Trim(name))
        skip == SkipWildcards(f, is_fork, is_arch)
        ps == Passes(f)
    IN IF IsInvalidName(repo) THEN FALSE
       ELSE IF Scan(ps[1].rules, repo, skip) THEN ps[1].flag
       ELSE IF Scan(ps[2].rules, repo, skip) THEN ps[2].flag
       ELSE IF f.exclude_forks /\ is_fork THEN FALSE
       ELSE IF f.exclude_archs /\ is_arch THEN FALSE
       ELSE f.default_all

otherVars == <<repos, repo_stats, storeHist, run, popVars, hidden, pipe, pg, rd, shist>>

\* let filter = GhsFilter::new(&filter)
new ==
    /\ flt.pc = "new"
    /\ flt' = [flt EXCEPT !.pc = "is_included", !.filter = New(Join(flt.rules))]
    /\ UNCHANGED otherVars

\* self.filter.is_included(&r.full_name, r.fork, r.archived)
is_included ==
    /\ flt.pc = "is_included"
    /\ \E name \in Names, fork \in BOOLEAN, arch \in BOOLEAN :
        flt' = [flt EXCEPT !.pc = "done", !.name = name, !.fork = fork, !.arch = arch,
                           !.out = IsIncluded(flt.filter, name, fork, arch)]
    /\ UNCHANGED otherVars

InitFilter ==
    /\ repos = << >>
    /\ repo_stats = << >>
    /\ supplied = {}
    /\ lastCall = [call |-> NoCall, again |-> FALSE, lower |-> FALSE]
    /\ ncalls = 0
    /\ run = << >>
    /\ repo_referrers = << >>
    /\ repo_popular_paths = << >>
    /\ fresh = FALSE
    /\ hidden = {}
    /\ pipe = [pc |-> "off"]
    /\ pg = [pc |-> "off"]
    /\ rd = [op |-> "off"]
    /\ shist = [pc |-> "off"]
    /\ \E rules \in RuleLists :
        flt = [pc |-> "new", rules |-> rules, name |-> << >>, fork |-> FALSE,
               arch |-> FALSE, filter |-> << >>, out |-> FALSE]

NextFilter == new \/ is_included

SpecFilter == InitFilter /\ [][NextFilter]_vars

\* the candidate name as is_included compares it
Norm(name) == ToLowercase(Trim(name))

WellFormed(repo) ==
    /\ repo # << >>
    /\ Count(repo, "/") = 1
    /\ repo[1] # "/"
    /\ repo[Len(repo)] # "/"

InSeq(x, sq) == \E i \in DOMAIN sq : sq[i] = x

\* the part of a name before its first '/'
RECURSIVE OwnerOf(_)
OwnerOf(repo) ==
    IF repo = << >> \/ Head(repo) = "/" THEN << >> ELSE <<Head(repo)>> \o OwnerOf(Tail(repo))

\* some rule of the list is owner/* with the owner of the name
UnderWildcard(rules, repo) ==
    \E i \in DOMAIN rules :
        /\ Len(rules[i]) >= 2
        /\ rules[i][Len(rules[i])] = "*"
        /\ rules[i][Len(rules[i]) - 1] = "/"
        /\ OwnerOf(repo) = SubSeq(rules[i], 1, Len(rules[i]) - 2)

Permuted(rules, pi) == [i \in DOMAIN rules |-> rules[pi[i]]]

\* the rules of the list are in the order of TokenOrder; every rule list is
\* a permutation of exactly one such list
InTokenOrder(rules) ==
    \A i, j \in DOMAIN rules :
        i < j => (CHOOSE k \in DOMAIN TokenOrder : TokenOrder[k] = rules[i])
                   <= (CHOOSE k \in DOMAIN TokenOrder : TokenOrder[k] = rules[j])

FooBar == <<"f", "o", "o", "/", "b", "a", "r">>
FooBaz == <<"f", "o", "o", "/", "b", "a", "z">>
FooWild == <<"f", "o", "o", "/", "*">>
Abc123 == <<"a", "b", "c", "/", "1", "2", "3">>
AbcXyz == <<"a", "b", "c", "/", "x", "y", "z">>
AbcWild == <<"a", "b", "c", "/", "*">>

\* C8: the result of is_included does not depend on the order of the rules
\* in the rule string: the filter built from any permutation of the
\* comma-separated rules gives the same answer for the name and flags asked
\* (all permutations of a rule list are compared with the one in TokenOrder).
\* For "foo/*,!foo/bar" and "!foo/bar,foo/*", foo/bar is excluded and foo/baz
\* is included.
C8_RuleOrderIrrelevant ==
    /\ (flt.pc = "done" /\ InTokenOrder(flt.rules)) =>
        \A pi \in Permutations(DOMAIN flt.rules) :
            IsIncluded(New(Join(Permuted(flt.rules, pi))), flt.name, flt.fork, flt.arch)
                = flt.out
    /\ \A rs \in {Join(<<FooWild, <<"!">> \o FooBar>>), Join(<<<<"!">> \o FooBar, FooWild>>)} :
        /\ ~IsIncluded(New(rs), FooBar, FALSE, FALSE)
        /\ IsIncluded(New(rs), FooBaz, FALSE, FALSE)

\* an exact exclude rule was written after the wildcard include rule that
\* matches the name, and the name is excluded
C8_Witness ==
    /\ flt.pc = "done"
    /\ flt.rules = <<TokWild, TokNotExact, TokStar>>
    /\ Norm(flt.name) = <<"a", "/", "b">>
    /\ ~flt.fork /\ ~flt.arch
    /\ flt.out = FALSE

\* a fork or archive exclusion applies to the question asked
Suppressed ==
    \/ flt.filter.exclude_forks /\ flt.fork
    \/ flt.filter.exclude_archs /\ flt.arch

\* C9: when !fork (resp. !archived) is set and the repository is a fork
\* (resp. archived), no wildcard rule decides: a well-formed name is included
\* exactly when an exact-name include rule matches it and no exact-name
\* exclude rule does, and no name is included otherwise. With
\* "!fork,abc/*,abc/xyz", abc/123 as a fork is excluded and abc/xyz as a fork
\* is included.
C9_NoWildcardForForks ==
    /\ (flt.pc = "done" /\ Suppressed) =>
        /\ flt.out => /\ InSeq(Norm(flt.name), flt.filter.include_repos)
                      /\ ~InSeq(Norm(flt.name), flt.filter.exclude_repos)
        /\ (/\ WellFormed(Norm(flt.name))
            /\ InSeq(Norm(flt.name), flt.filter.include_repos)
            /\ ~InSeq(Norm(flt.name), flt.filter.exclude_repos)) => flt.out
    /\ LET f == New(Join(<<TokFork, AbcWild, AbcXyz>>))
           g == New(Join(<<TokArchived, AbcWild, AbcXyz>>)) IN
        /\ ~IsIncluded(f, Abc123, TRUE, FALSE)
        /\ IsIncluded(f, AbcXyz, TRUE, FALSE)
        /\ ~IsIncluded(g, Abc123, FALSE, TRUE)
        /\ IsIncluded(g, AbcXyz, FALSE, TRUE)

\* a fork under !fork whose name only the wildcard include rule matches was
\* asked about, and is excluded
C9_Witness ==
    /\ flt.pc = "done"
    /\ flt.filter.exclude_forks /\ flt.fork /\ ~flt.arch
    /\ UnderWildcard(flt.filter.include_repos, Norm(flt.name))
    /\ ~InSeq(Norm(flt.name), flt.filter.include_repos)
    /\ flt.filter.exclude_repos = << >>
    /\ flt.filter.default_all
    /\ flt.out = FALSE

\* C10 as amended: the exclude rules are scanned before the include rules,
\* and within a scan a rule is compared exactly before it is tried as a
\* wildcard. A name equal to an exclude rule is excluded, even if an include
\* wildcard also matches it; a name equal to an include rule is included, even
\* if an exclude wildcard is suppressed for it, unless an exclude rule matches
\* it exactly or by an unsuppressed wildcard, in which case it is excluded.
C10_ExcludeScanThenExact ==
    (flt.pc = "done" /\ WellFormed(Norm(flt.name))) =>
        /\ InSeq(Norm(flt.name), flt.filter.exclude_repos) => ~flt.out
        /\ (/\ InSeq(Norm(flt.name), flt.filter.include_repos)
            /\ ~InSeq(Norm(flt.name), flt.filter.exclude_repos)) =>
                (flt.out <=> (Suppressed
                              \/ ~UnderWildcard(flt.filter.exclude_repos, Norm(flt.name))))

\* the name equals an exclude rule while an include wildcard matches it
C10_Witness ==
    /\ flt.pc = "done"
    /\ InSeq(Norm(flt.name), flt.filter.exclude_repos)
    /\ UnderWildcard(flt.filter.include_repos, Norm(flt.name))
    /\ ~Suppressed
    /\ ~flt.out

\* C10 as stated: a name equal to a rule gets that rule's polarity
C10_ExactRuleDecides ==
    (flt.pc = "done" /\ WellFormed(Norm(flt.name))) =>
        /\ InSeq(Norm(flt.name), flt.filter.include_repos) => flt.out
        /\ InSeq(Norm(flt.name), flt.filter.exclude_repos) => ~flt.out

\* the filter has been built
Built == flt.pc \in {"is_included", "done"}

\* the rule, as written in the rule string, is one of the given texts
RuleIs(i, text) == Norm(flt.rules[i]) = text

IsMeta(i) == RuleIs(i, <<"*">>) \/ RuleIs(i, TokFork) \/ RuleIs(i, TokArchived)

\* a rule of a valid name shape: exactly one '/', and not a meta rule
IsNameRule(i) == ~IsMeta(i) /\ Count(Norm(flt.rules[i]), "/") = 1
HasNameRule == \E i \in DOMAIN flt.rules : IsNameRule(i)
HasStar == \E i \in DOMAIN flt.rules : RuleIs(i, <<"*">>)

\* the rule string sets a flag that excludes the repository asked about
FlagExcludes ==
    \/ flt.fork /\ \E i \in DOMAIN flt.rules : RuleIs(i, TokFork)
    \/ flt.arch /\ \E i \in DOMAIN flt.rules : RuleIs(i, TokArchived)

\* some name rule matches the name, exactly or as a wildcard
MatchedBySomeRule ==
    \/ InSeq(Norm(flt.name), flt.filter.include_repos)
    \/ InSeq(Norm(flt.name), flt.filter.exclude_repos)
    \/ UnderWildcard(flt.filter.include_repos, Norm(flt.name))
    \/ UnderWildcard(flt.filter.exclude_repos, Norm(flt.name))

\* C11: a rule string without any name rule (a rule with exactly one '/')
\* gives default_all = true, and every well-formed name is then included
\* unless a set fork / archived flag excludes it; with a name rule and
\* without "*", a name that no rule matches is excluded.
C11_DefaultAll ==
    /\ (Built /\ ~HasNameRule) => flt.filter.default_all
    /\ (flt.pc = "done" /\ ~HasNameRule /\ WellFormed(Norm(flt.name))) =>
            (flt.out <=> ~FlagExcludes)
    /\ (flt.pc = "done" /\ HasNameRule /\ ~HasStar /\ ~MatchedBySomeRule) => ~flt.out

\* a well-formed name was asked about under a rule string made of !fork and
\* a malformed rule only, and is included
C11_Witness ==
    /\ flt.pc = "done"
    /\ flt.rules = <<TokFork, TokBad>>
    /\ WellFormed(Norm(flt.name))
    /\ ~flt.fork /\ flt.arch
    /\ flt.out

\* the name is empty, has no or several '/', or starts or ends with '/'
Malformed(name) ==
    \/ name = << >>
    \/ Cardinality({i \in DOMAIN name : name[i] = "/"}) # 1
    \/ name[1] = "/"
    \/ name[Len(name)] = "/"

\* C12: is_included answers false, under every rule set, for a name that is
\* empty, does not hold exactly one '/', or starts or ends with '/'; it
\* always answers with a boolean.
C12_MalformedNameExcluded ==
    flt.pc = "done" =>
        /\ flt.out \in BOOLEAN
        /\ (Malformed(flt.name) \/ Malformed(Norm(flt.name))) => ~flt.out

\* the name a/ was asked about under the rules "*" and a/, and is excluded
C12_Witness ==
    /\ flt.pc = "done"
    /\ flt.rules = <<TokStar, TokNoName>>
    /\ flt.name = <<"a", "/">>
    /\ ~flt.fork /\ ~flt.arch
    /\ ~flt.out

\* the rule is none of "*", "!fork", "!archived" and has not exactly one '/'
Discarded(i) == ~IsMeta(i) /\ Count(Norm(flt.rules[i]), "/") # 1

Without(rules, i) == SubSeq(rules, 1, i - 1) \o SubSeq(rules, i + 1, Len(rules))

\* C13: a rule that is not "*", "!fork" or "!archived" and has not exactly
\* one '/' is discarded: the filter built is the one built from the rule
\* string without that rule; a rule string made only of such rules (as "-*")
\* gives the filter of the empty rule string, which includes every
\* well-formed name.
C13_MalformedRuleDiscarded ==
    /\ Built =>
        /\ \A i \in DOMAIN flt.rules :
            Discarded(i) => flt.filter = New(Join(Without(flt.rules, i)))
        /\ (\A i \in DOMAIN flt.rules : Discarded(i)) => flt.filter = New(<< >>)
    /\ (flt.pc = "done" /\ WellFormed(Norm(flt.name))
            /\ \A i \in DOMAIN flt.rules : Discarded(i)) => flt.out
    /\ \A n \in {FooBar, Abc123} : IsIncluded(New(<<"-", "*">>), n, FALSE, FALSE)

\* a filter was built from a malformed rule between two name rules
C13_Witness ==
    /\ flt.pc = "done"
    /\ flt.rules = <<TokNotExact, TokBad, TokWild>>
    /\ flt.filter.include_repos = <<<<"a", "/", "*">>>>
    /\ flt.filter.exclude_repos = <<<<"a", "/", "b">>>>

\* only wildcard include rules can decide the answer
OnlyWildcards ==
    /\ flt.filter.exclude_repos = << >>
    /\ ~flt.filter.default_all
    /\ ~InSeq(Norm(flt.name), flt.filter.include_repos)
    /\ ~Suppressed

\* C14: a wildcard rule owner/* matches a name exactly when the part of the
\* name before its '/' equals owner: "foo/*" matches foo/bar and foo/123, not
\* fooo/bar.
C14_WildcardMatchesOwner ==
    /\ (flt.pc = "done" /\ WellFormed(Norm(flt.name)) /\ OnlyWildcards) =>
            (flt.out <=> UnderWildcard(flt.filter.include_repos, Norm(flt.name)))
    /\ IsIncluded(New(FooWild), FooBar, FALSE, FALSE)
    /\ IsIncluded(New(FooWild), <<"f", "o", "o", "/", "1", "2", "3">>, FALSE, FALSE)
    /\ ~IsIncluded(New(FooWild), <<"f", "o", "o", "o", "/", "b", "a", "r">>, FALSE, FALSE)

\* aa/b was asked about under the only rule a/*, and is excluded
C14_Witness ==
    /\ flt.pc = "done"
    /\ flt.rules = <<TokWild>>
    /\ flt.name = <<"a", "a", "/", "b">>
    /\ ~flt.fork /\ ~flt.arch
    /\ ~flt.out

----------------------------------------------------------------------------
(* SpecPage: GhClient::with_pagination *)

MaxPages == 4      \* the pages the remote serves at most

\* what the remote answers to a page request: a page with a link to the next
\* one, a page whose link header names no next page, a page without a link
\* header, a non-success status, a success whose body is not a JSON list
RespKinds == {"next", "last", "nolink", "refused", "undecodable"}

PageItems(page) == <<<<page, 1>>, <<page, 2>>>>

Response(page, kind) ==
    CASE kind = "next" ->
            [status |-> 200, link |-> <<"prev", "next", "last">>, json |-> TRUE,
             body |-> PageItems(page)]
      [] kind = "last" ->
            [status |-> 200, link |-> <<"prev", "first">>, json |-> TRUE,
             body |-> PageItems(page)]
      [] kind = "nolink" ->
            [status |-> 200, link |-> << >>, json |-> TRUE, body |-> PageItems(page)]
      [] kind = "refused" ->
            [status |-> 403, link |-> << >>, json |-> FALSE,
             body |-> <<"rate limit exceeded">>]
      [] kind = "undecodable" ->
            [status |-> 200, link |-> << >>, json |-> FALSE, body |-> <<"<html>">>]

\* the remotes: the last page served never links to a next one
Remotes == {api \in [1..MaxPages -> RespKinds] : api[MaxPages] # "next"}

\* rep.status() is a success
IsSuccess(status) == 200 <= status /\ status <= 299

\* the Err of error_for_status: the status and the URL of the response
StatusError(page, resp) == [kind |-> "status", status |-> resp.status, page |-> page]

\* the Err of rep.json()
DecodeError(page, resp) == [kind |-> "decode", page |-> page]

\* cur.contains(r#"rel="next""#)
HasNext(link) == \E i \in DOMAIN link : link[i] = "next"

\* an extend that keeps the last page only
ExtendReplaces(items, dat) == dat

\* items.extend(dat)
Extend(items, dat) == items \o dat

Request(p) == [page |-> p.page, per_page |-> PerPage]
Answer(p) == Response(p.page, p.api[p.page])

pageOther == <<repos, repo_stats, storeHist, run, popVars, hidden, pipe, flt, rd, shist>>

\* a page request answered with a success and a JSON list
page_fetched ==
    /\ pg.pc = "loop"
    /\ LET resp == Answer(pg) IN
        /\ IsSuccess(resp.status)
        /\ resp.json
        /\ pg' = IF HasNext(resp.link)
                 THEN [pg EXCEPT !.reqs = Append(@, Request(pg)),
                                 !.items = Extend(@, resp.body),
                                 !.page = @ + 1]
                 ELSE [pg EXCEPT !.reqs = Append(@, Request(pg)),
                                 !.items = Extend(@, resp.body),
                                 !.pc = "done",
                                 !.ret = [ok |-> TRUE, items |-> Extend(pg.items, resp.body)]]
    /\ UNCHANGED pageOther

\* a page request answered with a non-success status
page_refused ==
    /\ pg.pc = "loop"
    /\ LET resp == Answer(pg) IN
        /\ ~IsSuccess(resp.status)
        /\ pg' = [pg EXCEPT !.reqs = Append(@, Request(pg)),
                            !.pc = "done",
                            !.ret = [ok |-> FALSE, err |-> StatusError(pg.page, resp)]]
    /\ UNCHANGED pageOther

\* a page request answered with a success whose body is no JSON list
page_undecodable ==
    /\ pg.pc = "loop"
    /\ LET resp == Answer(pg) IN
        /\ IsSuccess(resp.status)
        /\ ~resp.json
        /\ pg' = [pg EXCEPT !.reqs = Append(@, Request(pg)),
                            !.pc = "done",
                            !.ret = [ok |-> FALSE, err |-> DecodeError(pg.page, resp)]]
    /\ UNCHANGED pageOther

InitPage ==
    /\ repos = << >>
    /\ repo_stats = << >>
    /\ supplied = {}
    /\ lastCall = [call |-> NoCall, again |-> FALSE, lower |-> FALSE]
    /\ ncalls = 0
    /\ run = << >>
    /\ repo_referrers = << >>
    /\ repo_popular_paths = << >>
    /\ fresh = FALSE
    /\ hidden = {}
    /\ pipe = [pc |-> "off"]
    /\ flt = [pc |-> "off"]
    /\ rd = [op |-> "off"]
    /\ shist = [pc |-> "off"]
    /\ \E api \in Remotes :
        pg = [pc |-> "loop", api |-> api, page |-> 1, items |-> << >>, reqs |-> << >>,
              ret |-> [ok |-> FALSE]]

NextPage == page_fetched \/ page_refused \/ page_undecodable

SpecPage == InitPage /\ [][NextPage]_vars

RECURSIVE PagesUpTo(_)
PagesUpTo(n) == IF n = 0 THEN << >> ELSE PagesUpTo(n - 1) \o PageItems(n)

\* C15: with_pagination requests the pages 1, 2, 3, ... in turn with page
\* size 100, goes on only while every response so far linked to a next page,
\* and returns the items of the fetched pages in page order; against a remote
\* of three pages with a next link and a fourth without, it makes exactly 4
\* requests and returns the items of the 4 pages.
C15_PagesInOrder ==
    /\ \A i \in DOMAIN pg.reqs : pg.reqs[i] = [page |-> i, per_page |-> 100]
    /\ \A i \in DOMAIN pg.reqs :
        (i < Len(pg.reqs) \/ pg.pc = "loop") => pg.api[i] = "next"
    /\ (pg.pc = "done" /\ pg.ret.ok) =>
        /\ pg.api[Len(pg.reqs)] \in {"last", "nolink"}
        /\ pg.ret.items = PagesUpTo(Len(pg.reqs))
    /\ (pg.pc = "done" /\ \A i \in 1..3 : pg.api[i] = "next") /\ pg.api[4] \in {"last", "nolink"} =>
        /\ Len(pg.reqs) = 4
        /\ pg.ret = [ok |-> TRUE, items |-> PagesUpTo(4)]

\* the call returned from a remote of three pages with a next link and a
\* fourth whose link header names no next page
C15_Witness ==
    /\ pg.pc = "done"
    /\ pg.ret.ok
    /\ SubSeq(pg.api, 1, 4) = <<"next", "next", "next", "last">>
    /\ Len(pg.reqs) = 4

\* C16: when a page request gets a non-success response, the call returns an
\* error carrying the status and the body of that response, no further page
\* is requested, and no item of the pages fetched before is returned.
C16_ErrorCarriesStatusAndBody ==
    (pg.pc = "done" /\ pg.api[Len(pg.reqs)] = "refused") =>
        /\ ~pg.ret.ok
        /\ "items" \notin DOMAIN pg.ret
        /\ pg.ret.err.status = Response(Len(pg.reqs), "refused").status
        /\ "body" \in DOMAIN pg.ret.err
        /\ pg.ret.err.body = Response(Len(pg.reqs), "refused").body

----------------------------------------------------------------------------
(* SpecPipe: the date keys of the rows one update_metrics writes *)

Timestamps(docs) == {docs[i].timestamp : i \in DOMAIN docs}

\* C17 as amended: the rows written by insert_stats, insert_referrers and
\* insert_paths in one update_metrics carry the day bucket of the invocation;
\* the rows written by insert_views and insert_clones carry the timestamp of
\* the traffic entry they are written from, which may be another day.
C17_DateKeyPerCall ==
    \A w \in pipe.dates :
        /\ w[1] \in {"insert_stats", "insert_referrers", "insert_paths"} => w[2] = pipe.date
        /\ w[1] = "insert_views" =>
            \E id \in pipe.tried : w[2] \in Timestamps(PipeViews(id, pipe.date))
        /\ w[1] = "insert_clones" =>
            \E id \in pipe.tried : w[2] \in Timestamps(PipeClones(id, pipe.date))
        /\ w[1] \in {"insert_stats", "insert_referrers", "insert_paths", "insert_views",
                     "insert_clones"}

\* an invocation returned after insert_stats wrote a row of its day bucket
\* and insert_views a row of the day before
C17_Witness ==
    /\ pipe.pc = "done"
    /\ pipe.result = "ok"
    /\ <<"insert_stats", pipe.date>> \in pipe.dates
    /\ <<"insert_referrers", pipe.date>> \in pipe.dates
    /\ <<"insert_views", pipe.date - 1>> \in pipe.dates

\* C17 as stated: every row written during the run has the day bucket of the
\* invocation as its date
C17_AllRowsCarryRunDate ==
    \A w \in pipe.dates : w[2] = pipe.date

----------------------------------------------------------------------------
(* SpecRead: the read queries of DbClient over a stored history *)

ReadDates == {1, 2, 3, 4}     \* four day buckets
StarVals == {0, 5, 8}         \* stored star counters; 0 is the column default
ReadNames == {NameOf(1), NameOf(2), NameOf(3)}   \* NameOf(3) is never stored

\* a repo_stats row of a day: the point-in-time and traffic counters differ
\* from day to day
ReadRow(date, stars) ==
    [stars |-> stars, forks |-> (stars + date) % 3, watchers |-> date % 2,
     issues |-> (date + 1) % 3,
     clones_count |-> (stars + date) % (MaxVal + 1), clones_uniques |-> date % 2,
     views_count |-> date, views_uniques |-> (stars + 1) % 3]

\* the stored histories: repository 1 has a row on any subset of the days, with
\* any star counter; repository 2 has no row or one row
ReadStats ==
    {[k \in ({1} \X D) \cup ({2} \X E) |-> ReadRow(k[2], IF k[1] = 1 THEN st[k[2]] ELSE 8)] :
        D \in SUBSET ReadDates, E \in {{}, {2}}, st \in [ReadDates -> StarVals]}

ReadRepos ==
    {[i \in I |-> [name |-> NameOf(i), stars_synced |-> FALSE]] : I \in SUBSET RepoIds}

\* SELECT date, stars FROM repo_stats rs INNER JOIN repos r ON r.id = rs.repo_id
\* WHERE r.name = $1 ORDER BY rs.date ASC
StarsQuery(rp, tbl, name) ==
    LET keys == {k \in DOMAIN tbl : k[1] \in IdsNamed(rp, name)}
        dates == SortedDates({k[2] : k \in keys})
    IN [i \in DOMAIN dates |->
          LET k == CHOOSE j \in keys : j[2] = dates[i]
          IN [date |-> dates[i], stars |-> tbl[k].stars]]

\* for (idx, item) in items.iter_mut().enumerate(): idx counts from 0
RECURSIVE RestoreLoop(_, _, _)
RestoreLoop(items, idx, prev_stars) ==
    IF idx >= Len(items) THEN items
    ELSE IF idx = 0 THEN RestoreLoop(items, idx + 1, prev_stars)
    ELSE LET stars == IF items[idx + 1].stars = 0 THEN prev_stars ELSE items[idx + 1].stars
         IN RestoreLoop([items EXCEPT ![idx + 1].stars = stars], idx + 1, stars)

\* let mut prev_stars = 0; the loop
RestoreGaps(items) == RestoreLoop(items, 0, 0)

\* a get_stars that returns every row
KeepAll(items) == items

\* items.into_iter().filter(|x| x.stars > 0).collect()
Positive(items) == SelectSeq(items, LAMBDA x : x.stars > 0)

\* a latest row taken from the first day
EarliestDate(tbl, id) ==
    CHOOSE d \in {k[2] : k \in {j \in DOMAIN tbl : j[1] = id}} :
        \A k \in DOMAIN tbl : k[1] = id => d <= k[2]

\* MAX(date) of the rows of one repo_id
MaxDate(tbl, id) ==
    CHOOSE d \in {k[2] : k \in {j \in DOMAIN tbl : j[1] = id}} :
        \A k \in DOMAIN tbl : k[1] = id => k[2] <= d

\* SELECT repo_id, MAX(date) AS date, stars, forks, watchers, issues
\* FROM repo_stats GROUP BY repo_id: the bare columns come from the row of the
\* maximum
Latest(tbl) ==
    {LET d == MaxDate(tbl, id) IN
        [repo_id |-> id, date |-> d, stars |-> tbl[<<id, d>>].stars,
         forks |-> tbl[<<id, d>>].forks, watchers |-> tbl[<<id, d>>].watchers,
         issues |-> tbl[<<id, d>>].issues] : id \in {k[1] : k \in DOMAIN tbl}}

\* SUM(col) over the rows of a group
RECURSIVE SumCol(_, _, _)
SumCol(tbl, keys, col) ==
    IF keys = {} THEN 0
    ELSE LET k == CHOOSE j \in keys : TRUE
         IN tbl[k][col] + SumCol(tbl, keys \ {k}, col)

\* the inner SELECT of TOTAL_QUERY: repo_stats joined to latest on repo_id,
\* grouped by repo_id
GroupedStats(tbl) ==
    {[repo_id |-> l.repo_id,
      clones_count |-> SumCol(tbl, {k \in DOMAIN tbl : k[1] = l.repo_id}, "clones_count"),
      clones_uniques |-> SumCol(tbl, {k \in DOMAIN tbl : k[1] = l.repo_id}, "clones_uniques"),
      views_count |-> SumCol(tbl, {k \in DOMAIN tbl : k[1] = l.repo_id}, "views_count"),
      views_uniques |-> SumCol(tbl, {k \in DOMAIN tbl : k[1] = l.repo_id}, "views_uniques"),
      date |-> l.date, stars |-> l.stars, forks |-> l.forks, watchers |-> l.watchers,
      issues |-> l.issues] : l \in Latest(tbl)}

\* SELECT * FROM repos r INNER JOIN (...) rs ON rs.repo_id = r.id, as RepoTotals
TotalQuery(rp, tbl) ==
    {[id |-> g.repo_id, name |-> rp[g.repo_id].name,
      date |-> g.date, stars |-> g.stars, forks |-> g.forks, watchers |-> g.watchers,
      issues |-> g.issues, clones_count |-> g.clones_count,
      clones_uniques |-> g.clones_uniques, views_count |-> g.views_count,
      views_uniques |-> g.views_uniques] :
        g \in {h \in GroupedStats(tbl) : h.repo_id \in DOMAIN rp}}

\* fetch_optional: Option<RepoTotals>
None == [some |-> FALSE]
Some(item) == [some |-> TRUE, item |-> item]

readOther == <<repos, repo_stats, storeHist, run, popVars, hidden, pipe, flt, pg, shist>>

\* DbClient::get_stars
get_stars ==
    /\ rd.op # "off"
    /\ \E name \in ReadNames :
        LET items == StarsQuery(repos, repo_stats, name)
            filled == RestoreGaps(items)
        IN rd' = [op |-> "get_stars", name |-> name, fetched |-> items,
                  filled |-> filled, ret |-> [ok |-> TRUE, val |-> Positive(filled)]]
    /\ UNCHANGED readOther

\* DbClient::get_repo_totals
get_repo_totals ==
    /\ rd.op # "off"
    /\ \E name \in ReadNames :
        LET rows == {t \in TotalQuery(repos, repo_stats) : t.name = name}
            item == IF rows = {} THEN None ELSE Some(CHOOSE t \in rows : TRUE)
        IN rd' = [op |-> "get_repo_totals", name |-> name,
                  ret |-> [ok |-> TRUE, val |-> item]]
    /\ UNCHANGED readOther

InitRead ==
    /\ repos \in ReadRepos
    /\ repo_stats \in ReadStats
    /\ supplied = {}
    /\ lastCall = [call |-> NoCall, again |-> FALSE, lower |-> FALSE]
    /\ ncalls = 0
    /\ run = << >>
    /\ repo_referrers = << >>
    /\ repo_popular_paths = << >>
    /\ fresh = FALSE
    /\ hidden = {}
    /\ pipe = [pc |-> "off"]
    /\ flt = [pc |-> "off"]
    /\ pg = [pc |-> "off"]
    /\ rd = [op |-> "idle"]
    /\ shist = [pc |-> "off"]

NextRead == get_stars \/ get_repo_totals

SpecRead == InitRead /\ [][NextRead]_vars

\* the stored star series of the repository named in the last read, by date
StoredStars == [i \in DOMAIN rd.fetched |-> rd.fetched[i].stars]

\* the nearest row before row i with a non-zero stored counter
NearestEarlier(i) ==
    CHOOSE j \in 1..(i - 1) :
        /\ StoredStars[j] # 0
        /\ \A l \in (j + 1)..(i - 1) : StoredStars[l] = 0

\* C18: in the series get_stars reads, every row after the first whose stored
\* stars is 0 takes the value of the nearest earlier row with a non-zero
\* stored stars, whatever the first row holds.
C18_ZeroTakesNearestEarlierNonZero ==
    rd.op = "get_stars" =>
        \A i \in 2..Len(rd.fetched) :
            (StoredStars[i] = 0 /\ \E j \in 1..(i - 1) : StoredStars[j] # 0) =>
                rd.filled[i].stars = StoredStars[NearestEarlier(i)]

Strictly(items) ==
    \A i \in DOMAIN items : \A j \in DOMAIN items : i < j => items[i].date < items[j].date

\* C19: every row get_stars returns has stars > 0, the rows are in ascending
\* date order, each row has the date of a stored row of the repository and
\* the counter stored on that date unless that counter is 0; the stored series
\* [0, 5, 0, 8] is returned as [5, 5, 8] with the dates of its 2nd, 3rd and 4th
\* rows.
C19_PositiveAscendingDated ==
    rd.op = "get_stars" =>
        LET out == rd.ret.val IN
        /\ rd.ret.ok
        /\ \A i \in DOMAIN out : out[i].stars > 0
        /\ Strictly(out)
        /\ \A i \in DOMAIN out :
            \E k \in DOMAIN repo_stats :
                /\ k[1] \in DOMAIN repos /\ repos[k[1]].name = rd.name
                /\ k[2] = out[i].date
                /\ repo_stats[k].stars # 0 => out[i].stars = repo_stats[k].stars
        /\ StoredStars = <<0, 5, 0, 8>> =>
            out = <<[date |-> rd.fetched[2].date, stars |-> 5],
                    [date |-> rd.fetched[3].date, stars |-> 5],
                    [date |-> rd.fetched[4].date, stars |-> 8]>>

\* get_stars has read the stored series [0, 5, 0, 8]
C19_Witness ==
    /\ rd.op = "get_stars"
    /\ StoredStars = <<0, 5, 0, 8>>
    /\ Len(rd.ret.val) = 3

\* the rows of the repository named in the last read
RowsNamed == {k \in DOMAIN repo_stats : k[1] \in DOMAIN repos /\ repos[k[1]].name = rd.name}

\* the sum of a column over the days 1..d of repository id
RECURSIVE SumTo(_, _, _)
SumTo(id, d, col) ==
    IF d = 0 THEN 0
    ELSE (IF <<id, d>> \in DOMAIN repo_stats THEN repo_stats[<<id, d>>][col] ELSE 0)
         + SumTo(id, d - 1, col)

\* C20: for a repository with at least one repo_stats row get_repo_totals
\* returns the four traffic counters summed over all rows of the repository
\* and date, stars, forks, watchers and issues of its row of the maximum date;
\* for a name with no repository or no stats row it returns None, not an error.
C20_TotalsSumAndLatest ==
    rd.op = "get_repo_totals" =>
        /\ rd.ret.ok
        /\ RowsNamed = {} => rd.ret.val = None
        /\ RowsNamed # {} =>
            /\ rd.ret.val.some
            /\ LET t == rd.ret.val.item
                   id == t.id
                   last == CHOOSE k \in RowsNamed : \A j \in RowsNamed : j[2] <= k[2]
               IN /\ repos[id].name = rd.name
                  /\ \A c \in CloneCols \cup ViewCols : t[c] = SumTo(id, 4, c)
                  /\ t.date = last[2]
                  /\ \A c \in StatCols : t[c] = repo_stats[last][c]

\* totals of a repository with rows on several days, the latest of which
\* holds neither the largest stars nor all of the traffic
C20_Witness ==
    /\ rd.op = "get_repo_totals"
    /\ rd.ret.val.some
    /\ Cardinality(RowsNamed) >= 3
    /\ rd.ret.val.item.clones_count > repo_stats[<<rd.ret.val.item.id, rd.ret.val.item.date>>].clones_count
    /\ \E k \in RowsNamed : repo_stats[k].stars > rd.ret.val.item.stars

\* an unknown name, and a stored repository without rows, give None
C20_WitnessNone ==
    /\ rd.op = "get_repo_totals"
    /\ rd.ret.val = None
    /\ rd.name \in {repos[i].name : i \in DOMAIN repos}

----------------------------------------------------------------------------
(* SpecHist: get_stars_history on the stargazers of one repository *)

MaxStars == 4        \* stargazers of the repository
DaySlots == 10       \* a timestamp is day * DaySlots + time of day

\* starred_at values: two on day 1, two on day 2, one on day 3
StarStamps == {10, 13, 20, 27, 31}
StarLogs == UNION {[1..n -> StarStamps] : n \in 0..MaxStars}

\* star.starred_at.split("T").next(), then format!("{date}T00:00:00Z")
Midnight(starred_at) == (starred_at \div DaySlots) * DaySlots

\* for star in stars { dat.entry(date).and_modify(|e| *e += 1).or_insert(1) }
RECURSIVE CountLoop(_, _)
CountLoop(dat, stars) ==
    IF stars = << >> THEN dat
    ELSE LET date == Midnight(Head(stars)) IN
         CountLoop(IF date \in DOMAIN dat THEN [dat EXCEPT ![date] = @ + 1]
                   ELSE (date :> 1) @@ dat,
                   Tail(stars))

\* dat.into_iter().collect(), then sort_by(|a, b| a.0.cmp(&b.0))
SortByDate(dat) ==
    LET dates == SortedDates(DOMAIN dat)
    IN [i \in DOMAIN dates |-> <<dates[i], dat[dates[i]]>>]

\* an accumulated count that is the day's own count
AccOfDayOnly(rs, i, new_count) == new_count

\* if i > 0 { rs[i - 1].1 + new_count } else { new_count.clone() }, i from 0
AccCount(rs, i, new_count) == IF i > 0 THEN rs[i][2] + new_count ELSE new_count

\* for i in 0..dat.len() { rs.push((date, acc_count, new_count)) }
RECURSIVE AccLoop(_, _, _)
AccLoop(rs, dat, i) ==
    IF i >= Len(dat) THEN rs
    ELSE AccLoop(Append(rs, <<dat[i + 1][1], AccCount(rs, i, dat[i + 1][2]), dat[i + 1][2]>>),
                 dat, i + 1)

GetStarsHistory(stars) == AccLoop(<< >>, SortByDate(CountLoop(<< >>, stars)), 0)

histOther == <<repos, repo_stats, storeHist, run, popVars, hidden, pipe, flt, pg, rd>>

\* gh.get_stars(repo) returned the stargazers
get_stars_history ==
    /\ shist.pc = "call"
    /\ shist' = [shist EXCEPT !.pc = "done",
                            !.ret = [ok |-> TRUE, val |-> GetStarsHistory(shist.stars)]]
    /\ UNCHANGED histOther

\* gh.get_stars(repo).await? returned an error
get_stars_failed ==
    /\ shist.pc = "call"
    /\ shist' = [shist EXCEPT !.pc = "done", !.ret = [ok |-> FALSE]]
    /\ UNCHANGED histOther

InitHist ==
    /\ repos = << >>
    /\ repo_stats = << >>
    /\ supplied = {}
    /\ lastCall = [call |-> NoCall, again |-> FALSE, lower |-> FALSE]
    /\ ncalls = 0
    /\ run = << >>
    /\ repo_referrers = << >>
    /\ repo_popular_paths = << >>
    /\ fresh = FALSE
    /\ hidden = {}
    /\ pipe = [pc |-> "off"]
    /\ flt = [pc |-> "off"]
    /\ pg = [pc |-> "off"]
    /\ rd = [op |-> "off"]
    /\ \E stars \in StarLogs : shist = [pc |-> "call", stars |-> stars, ret |-> [ok |-> FALSE]]

NextHist == get_stars_history \/ get_stars_failed

SpecHist == InitHist /\ [][NextHist]_vars

\* the stargazers of one UTC day
StarsOfDay(stars, day) ==
    {i \in DOMAIN stars : stars[i] \div DaySlots = day \div DaySlots}

RECURSIVE SumOfNew(_, _)
SumOfNew(rs, i) == IF i = 0 THEN 0 ELSE rs[i][3] + SumOfNew(rs, i - 1)

\* C21: get_stars_history returns one entry per distinct UTC day of the
\* stargazer timestamps, by date ascending; new_count is the number of
\* stargazers of the day, the accumulated count of an entry is the sum of
\* new_count up to it, the accumulated counts increase strictly and the last
\* equals the number of stargazers fetched.
C21_HistoryPerDayAccumulated ==
    (shist.pc = "done" /\ shist.ret.ok) =>
        LET rs == shist.ret.val
            stars == shist.stars IN
        /\ {rs[i][1] : i \in DOMAIN rs} = {Midnight(stars[j]) : j \in DOMAIN stars}
        /\ \A i \in DOMAIN rs : \A j \in DOMAIN rs : i < j => rs[i][1] < rs[j][1]
        /\ \A i \in DOMAIN rs :
            /\ rs[i][3] = Cardinality(StarsOfDay(stars, rs[i][1]))
            /\ rs[i][2] = SumOfNew(rs, i)
            /\ i > 1 => rs[i][2] > rs[i - 1][2]
        /\ rs # << >> => rs[Len(rs)][2] = Len(stars)

\* stargazers of three days, two of them on the same day, fetched out of
\* date order
C21_Witness ==
    /\ shist.pc = "done" /\ shist.ret.ok
    /\ Len(shist.ret.val) = 3
    /\ Len(shist.stars) = 4
    /\ shist.stars[1] > shist.stars[2]

----------------------------------------------------------------------------
(* SpecPipe: the order of the calls of one update_metrics *)

\* the repositories that pass the filter, in the order of the listing
Included == SelectSeq(Listing, LAMBDA id : id \in pipe.incl)

\* C22: the calls of one update_metrics come in the order get_repos,
\* check_hidden_repos, update_repo_metrics for each included repository in turn,
\* update_deltas once after the last of them (failed or not), then sync_stars;
\* a call is made only if the one before it succeeded, except that a failed
\* repository is followed by the next call.
C22_CallsInOrder ==
    pipe.pc # "off" =>
        LET c == pipe.calls
            n == Len(Included) IN
        /\ \A i \in DOMAIN c :
            /\ i = 1 => c[i][1] = "get_repos"
            /\ i = 2 => c[i][1] = "check_hidden_repos"
            /\ (i > 2 /\ i <= n + 2) =>
                (c[i][1] = "update_repo_metrics" /\ c[i][2] = Included[i - 2])
            /\ i = n + 3 => c[i][1] = "update_deltas"
            /\ i = n + 4 => c[i][1] = "repos_to_sync"
            /\ i > n + 4 => c[i][1] = "sync"
            /\ (i > 1 /\ c[i - 1][1] # "update_repo_metrics") => c[i - 1][3] = "ok"
        /\ pipe.pc \in {"repos_to_sync", "sync_stars"} => Len(c) >= n + 3
        /\ (pipe.pc = "done" /\ pipe.result = "ok") => Len(c) >= n + 4

\* an invocation over three repositories, the last of which failed, has
\* recomputed the deltas and synced a star history
C22_Witness ==
    /\ pipe.pc = "done" /\ pipe.result = "ok"
    /\ Len(Included) = 3
    /\ pipe.calls[5] = <<"update_repo_metrics", 3, "err">>
    /\ pipe.calls[6] = <<"update_deltas", 0, "ok">>
    /\ Len(pipe.calls) >= 8

\* C23: when the fetch of the repository list fails, update_metrics returns
\* the error at once: no other call is made (no reconciliation, no upsert, no
\* update_deltas, no sync_stars, no second get_repos) and the store and the
\* hidden marks are as they were.
C23_ListFailureEndsRun ==
    (pipe.pc # "off" /\ pipe.calls # << >> /\ pipe.calls[1] = <<"get_repos", 0, "err">>) =>
        /\ pipe.pc = "done"
        /\ pipe.result = "err"
        /\ pipe.failedAt = "get_repos"
        /\ Len(pipe.calls) = 1
        /\ Db = pipe.start
        /\ hidden = {}
        /\ pipe.tried = {} /\ pipe.synced = {}

\* the listing failed over a store that holds rows of earlier invocations
C23_Witness ==
    /\ pipe.pc = "done"
    /\ pipe.calls = <<<<"get_repos", 0, "err">>>>
    /\ DOMAIN pipe.start.repos = {2, 4}
    /\ pipe.incl # {}

Listed == {Listing[i] : i \in DOMAIN Listing}

\* C24: the reconciliation marks hidden exactly the ids stored before the run
\* that the fetched listing (before the filter) does not hold, and no call of
\* the pipeline removes a row of repos, repo_stats, repo_referrers or
\* repo_popular_paths: every key stored at the start is still stored.
C24_HiddenNotDeleted ==
    pipe.pc # "off" =>
        /\ hidden = IF Len(pipe.calls) >= 2 /\ pipe.calls[2] = <<"check_hidden_repos", 0, "ok">>
                    THEN DOMAIN pipe.start.repos \ Listed
                    ELSE {}
        /\ hidden \cap Listed = {}
        /\ DOMAIN pipe.before.repos \subseteq DOMAIN repos
        /\ DOMAIN pipe.before.stats \subseteq DOMAIN repo_stats
        /\ DOMAIN pipe.before.referrers \subseteq DOMAIN repo_referrers
        /\ DOMAIN pipe.before.paths \subseteq DOMAIN repo_popular_paths
        /\ DOMAIN pipe.start.repos \subseteq DOMAIN pipe.before.repos
        /\ DOMAIN pipe.start.stats \subseteq DOMAIN pipe.before.stats
        /\ DOMAIN pipe.start.referrers \subseteq DOMAIN pipe.before.referrers
        /\ DOMAIN pipe.start.paths \subseteq DOMAIN pipe.before.paths

\* repository 4, stored but no longer listed, is hidden and still has its
\* rows after a complete invocation that stored new rows
C24_Witness ==
    /\ pipe.pc = "done" /\ pipe.result = "ok"
    /\ hidden = {4}
    /\ 4 \in DOMAIN repos /\ <<4, 1>> \in DOMAIN repo_stats
    /\ 2 \in pipe.ok /\ 1 \in pipe.ok
    /\ pipe.incl # PipeIds

----------------------------------------------------------------------------
(* SpecPipe: sync_stars *)

\* the iterations of sync_stars logged so far
SyncCalls == {i \in DOMAIN pipe.calls : pipe.calls[i][1] = "sync"}

\* C25: when the fetch of a star history fails in sync_stars, the iteration
\* writes nothing and is the last call of the invocation: the repository and
\* all repositories after it in the list stay unsynced and unfetched, the
\* repositories synced before stay synced, and update_metrics returns Ok.
C25_FetchFailureStopsSync ==
    pipe.pc # "off" =>
        \A i \in SyncCalls :
            pipe.calls[i][3] = "fetch_err" =>
                /\ i = Len(pipe.calls)
                /\ pipe.pc = "done" /\ pipe.result = "ok" /\ pipe.failedAt = "none"
                /\ Db = pipe.before
                /\ pipe.tosync # << >> /\ Head(pipe.tosync) = pipe.calls[i][2]
                /\ \A j \in DOMAIN pipe.tosync :
                    /\ ~repos[pipe.tosync[j]].stars_synced
                    /\ pipe.tosync[j] \notin pipe.synced
                    /\ pipe.tosync[j] \notin DOMAIN pipe.fetched
                /\ \A k \in pipe.synced : repos[k].stars_synced

\* the second of three unsynced repositories could not be fetched after the
\* first was synced
C25_Witness ==
    /\ pipe.pc = "done"
    /\ Cardinality(SyncCalls) = 2
    /\ pipe.calls[Len(pipe.calls)][3] = "fetch_err"
    /\ Cardinality(pipe.synced) = 1
    /\ Len(pipe.tosync) = 2

\* the repositories flagged stars_synced in a repos table
Flagged(rp) == {id \in DOMAIN rp : rp[id].stars_synced}

\* C26: sync_stars runs an iteration only for repositories that were not
\* flagged stars_synced, and a repository it has flagged has, for each day of
\* the star history fetched for it, a repo_stats row whose stars is at least
\* the cumulative count of that day.
C26_SyncedMeansHistoryStored ==
    pipe.pc # "off" =>
        /\ \A i \in SyncCalls : pipe.calls[i][2] \notin Flagged(pipe.start.repos)
        /\ Flagged(repos) = Flagged(pipe.start.repos) \cup pipe.synced
        /\ \A id \in pipe.synced :
            /\ id \in DOMAIN pipe.fetched
            /\ \A j \in DOMAIN pipe.fetched[id] :
                LET day == pipe.fetched[id][j] IN
                /\ <<id, day[1]>> \in DOMAIN repo_stats
                /\ repo_stats[<<id, day[1]>>].stars >= day[2]

\* a repository with a star history of two days was synced in a run that
\* found repository 2 already synced
C26_Witness ==
    /\ pipe.pc = "done"
    /\ 2 \in Flagged(pipe.start.repos)
    /\ 2 \in pipe.ok
    /\ \E id \in pipe.synced : Len(pipe.fetched[id]) = 2
    /\ Cardinality(pipe.synced) >= 2

\* C27: sync_stars starts no iteration once pages_collected exceeds the budget
\* of 1000: the iteration that took the count over the budget is the last call
\* of the run, sync_stars returns Ok, and the repositories left in the list are
\* neither fetched nor written nor flagged, so they stay stars_synced = false.
C27_BudgetStopsSync ==
    pipe.pc # "off" =>
        /\ pipe.pc = "sync_stars" => pipe.pages <= SyncBudget
        /\ pipe.pages > SyncBudget =>
            /\ pipe.pc = "done" /\ pipe.result = "ok"
            /\ pipe.calls[Len(pipe.calls)][1] = "sync"
            /\ pipe.calls[Len(pipe.calls)][3] = "ok"
            /\ \A j \in DOMAIN pipe.tosync :
                /\ pipe.tosync[j] \in DOMAIN repos
                /\ ~repos[pipe.tosync[j]].stars_synced
                /\ pipe.tosync[j] \notin DOMAIN pipe.fetched
                /\ \A i \in SyncCalls : pipe.calls[i][2] # pipe.tosync[j]

\* two histories of 501 pages took the count to 1002 and left a third
\* repository for the next invocation
C27_Witness ==
    /\ pipe.pc = "done"
    /\ pipe.pages > SyncBudget
    /\ Cardinality(pipe.synced) = 2
    /\ pipe.tosync # << >>

\* C28: after each repository sync_stars has processed, pages_collected equals
\* the number of stargazer page requests made so far in the run, whatever the
\* number of stargazers of the repositories, zero included.
C28_CounterTracksRequests ==
    (pipe.pc # "off" /\ pipe.calls # << >>
     /\ pipe.calls[Len(pipe.calls)][1] = "sync" /\ pipe.calls[Len(pipe.calls)][3] = "ok") =>
        pipe.pages = pipe.reqs

\* the counter and the requests agree as long as every repository processed
\* has at least one stargazer
C28_AgreeWithoutEmptyHistory ==
    (pipe.pc # "off" /\ pipe.calls # << >>
     /\ pipe.calls[Len(pipe.calls)][1] = "sync" /\ pipe.calls[Len(pipe.calls)][3] = "ok"
     /\ \A id \in DOMAIN pipe.fetched : pipe.fetched[id] # << >>) =>
        pipe.pages = pipe.reqs

----------------------------------------------------------------------------
(* SpecPipe: what a failed repository leaves in the store *)

Fetches ==
    {"get_open_pull_requests", "traffic_views", "traffic_clones", "traffic_refs",
     "traffic_paths"}

\* the rows of one repository in the four tables
RowsOf(db, id) ==
    [repos |-> [k \in {j \in DOMAIN db.repos : j = id} |-> db.repos[k]],
     stats |-> [k \in {j \in DOMAIN db.stats : j[1] = id} |-> db.stats[k]],
     referrers |-> [k \in {j \in DOMAIN db.referrers : j[1] = id} |-> db.referrers[k]],
     paths |-> [k \in {j \in DOMAIN db.paths : j[1] = id} |-> db.paths[k]]]

----------------------------------------------------------------------------
(* SpecBackfill: update_metrics invoked again and again, no call failing.  *)
(* Of an invocation only what touches stars_synced is kept: insert_repo of *)
(* every listed repository, then the loop of sync_stars.                   *)

MaxRuns == 3      \* invocations per behaviour

\* the ingestion loop re-sights every listed repository through insert_repo
RECURSIVE Resight(_, _)
Resight(rp, ids) ==
    IF ids = << >> THEN rp
    ELSE Resight(InsertRepoRow(rp, PipeRepo(Head(ids))), Tail(ids))

backfillOther == <<storeHist, run, popVars, hidden, flt, pg, rd, shist>>

\* the scheduler invokes update_metrics: the repositories are re-sighted, then
\* sync_stars reads repos_to_sync
invoke ==
    /\ pipe.pc \in {"idle", "done"}
    /\ pipe.runs < MaxRuns
    /\ LET rp == Resight(repos, Listing)
           ts == SortedDates(ReposToSync(rp)) IN
        /\ repos' = rp
        /\ pipe' = [pipe EXCEPT !.pc = IF ts = << >> THEN "done" ELSE "sync_stars",
                                !.result = IF ts = << >> THEN "ok" ELSE "running",
                                !.runs = @ + 1, !.tosync = ts, !.found = ts,
                                !.pages = 0, !.synced = {}]
    /\ UNCHANGED <<repo_stats, backfillOther>>

\* one iteration of the loop of sync_stars in which every call returns Ok
backfill_repo ==
    /\ pipe.pc = "sync_stars"
    /\ LET id == Head(pipe.tosync) IN
        \E stars \in PipeHists :
            /\ repo_stats' = InsertStarsLoop(repo_stats, id, stars)
            /\ repos' = MarkRepoStarsSynced(repos, id)
            /\ LET q == SyncCount([pipe EXCEPT !.synced = @ \cup {id}], stars)
               IN pipe' = [q EXCEPT !.deferred = @ \/ (q.pc = "done" /\ q.tosync # << >>)]
    /\ UNCHANGED backfillOther

InitBackfill ==
    /\ \E flagged \in SUBSET PipeIds :
        repos = [id \in PipeIds |-> [name |-> NameOf(id), stars_synced |-> id \in flagged]]
    /\ repo_stats = << >>
    /\ supplied = {}
    /\ lastCall = [call |-> NoCall, again |-> FALSE, lower |-> FALSE]
    /\ ncalls = 0
    /\ run = << >>
    /\ repo_referrers = << >>
    /\ repo_popular_paths = << >>
    /\ fresh = FALSE
    /\ hidden = {}
    /\ flt = [pc |-> "off"]
    /\ pg = [pc |-> "off"]
    /\ rd = [op |-> "off"]
    /\ shist = [pc |-> "off"]
    /\ pipe = [pc |-> "idle", result |-> "running", runs |-> 0, tosync |-> << >>,
               found |-> << >>, pages |-> 0, synced |-> {}, deferred |-> FALSE]

NextBackfill == invoke \/ backfill_repo

\* the scheduler keeps invoking and a started invocation runs to its end
SpecBackfill == InitBackfill /\ [][NextBackfill]_vars /\ WF_vars(NextBackfill)

AllSynced == \A id \in DOMAIN repos : repos[id].stars_synced

\* a run that found unsynced repositories has synced at least one when it ends
RunProgress ==
    (pipe.pc = "done" /\ pipe.found # << >>) => pipe.synced # {}

\* a flagged repository stays flagged, also when it is re-sighted, and is not
\* read by repos_to_sync again
SyncedStays ==
    \A id \in DOMAIN repos :
        repos[id].stars_synced =>
            /\ id \in DOMAIN repos' /\ repos'[id].stars_synced
            /\ \A j \in DOMAIN pipe'.tosync : pipe'.tosync[j] # id

\* C30: under repeated invocations without failures over a fixed set of
\* repositories, every run of sync_stars that finds an unsynced repository
\* syncs at least one (the budget is tested after the repository is flagged),
\* a flagged repository is neither unflagged by insert_repo nor read by
\* repos_to_sync again, and eventually every repository is stars_synced.
C30_BackfillCompletes ==
    /\ []RunProgress
    /\ [][SyncedStays]_vars
    /\ <>AllSynced

\* every repository is synced after a second invocation, the first having
\* stopped on the budget
C30_Witness ==
    /\ pipe.pc = "done"
    /\ AllSynced
    /\ pipe.runs = 2
    /\ pipe.deferred

====
